---- MODULE Spec2Model ----
(***************************************************************************)
(* d2runner: the run tracker (RunTracker) and its CSV run log              *)
(* (CsvRunLogger) of src/d2runner/core.py as a state machine.              *)
(*                                                                         *)
(* The module holds several specifications over one set of variables:      *)
(*   Spec     the tracker driven by a caller of its five operations;       *)
(*   SpecLog  undo_last_for_session applied to stores drawn as inputs;     *)
(*   SpecApp  the application: the keyboard and controller sources put     *)
(*            (source, action) pairs on the command queue, the UI thread   *)
(*            drains it on its tick and applies handle_action;             *)
(*   SpecDisp handle_action called in the UI thread, one action after      *)
(*            another, whatever its source;                                *)
(*   SpecGate the repeat guard of the two input backends                   *)
(*            (_should_throttle, _should_throttle_action) under calls at   *)
(*            chosen instants;                                             *)
(*   SpecCombo normalize_combo_string and parse_combo_string applied to    *)
(*            combo strings drawn as inputs;                               *)
(*   SpecKeys the listener callbacks of HotkeyBackend under press and      *)
(*            release events;                                              *)
(*   SpecReload the same listener while reload_bindings replaces its       *)
(*            binding table from the UI thread;                            *)
(*   SpecPad  the poll loop of ControllerBackend._run over the readings of *)
(*            a connected controller, one tick at a time;                  *)
(*   SpecCtl  the life of the controller backend: start, stop and reload   *)
(*            called from the UI thread, and the threads running _run;     *)
(*   SpecFail the tracker of Spec with a log file that may fail: an append *)
(*            or an undo may raise an OSError before the file is touched;  *)
(*   SpecSet  the Save button of the settings dialog                       *)
(*            (_save_and_close) pressed on forms drawn as inputs;          *)
(*   SpecTick the periodic _tick of the window that drains the queue and   *)
(*            arms itself again, with log writes that may fail, under      *)
(*            fairness of the Tk main loop.                                *)
(* A specification leaves the variables of the others at their initial     *)
(* values.                                                                 *)
(*                                                                         *)
(* Time is the monotonic clock read in integer milliseconds.  A caller     *)
(* invokes the five tracker operations in any order; the clock advances    *)
(* between calls.  The wall clock of _now_local() is read off the same     *)
(* model clock.  The log file is new when the tracker is constructed       *)
(* (D2RunnerApp._new_session_csv_path picks a path that does not exist),   *)
(* and a session id is a random draw, so a draw may repeat an earlier id.  *)
(***************************************************************************)
EXTENDS Integers, Sequences, FiniteSets, TLC

(***************************************************************************)
(* Bounds of the model.                                                    *)
(***************************************************************************)
MaxTime == 2          \* the clock runs 0..MaxTime milliseconds
MaxRows == 2          \* at most this many rows are ever in the log file
MaxLimit == 2         \* max_saved_runs is None or 1..MaxLimit
NumSessionIds == 2    \* session ids are drawn from 1..NumSessionIds
MaxLogLen == 3        \* SpecLog: a drawn store holds at most this many rows
MaxEvents == 3        \* SpecApp: at most this many actions are put or clicked
SESSION_RUN_LIMIT == 2   \* D2RunnerApp.SESSION_RUN_LIMIT (500), scaled down
MaxCalls == 3         \* SpecGate: at most this many calls of the gate
MaxParts == 3         \* SpecCombo: a drawn combo string has at most this many parts
MaxKeyEvents == 4     \* SpecKeys: at most this many press and release events
MaxTicks == 3         \* SpecPad: at most this many ticks of the poll loop
MaxSaves == 2         \* SpecSet: Save is pressed at most this many times
MaxDispatch == 5      \* SpecDisp: handle_action is called at most this many times
MaxThreads == 2       \* SpecCtl: start() creates at most this many threads
MaxLoops == 2         \* SpecCtl: the poll loops run at most this many iterations in all

None == -1            \* Python's None for an optional clock reading

Time == 0..MaxTime
SessionIds == 1..NumSessionIds

\* A note is a string: a sequence of characters.  " " is whitespace.
Notes == { <<" ", "b", " ">> }

\* max_saved_runs: int | None, as <<>> (None) or <<n>>.
MaxSavedChoices == { <<>> } \cup { <<n>> : n \in 1..MaxLimit }

VARIABLES
    now,                     \* time.monotonic(), in ms
    session_id,              \* RunTracker.session_id
    run_number,              \* RunTracker.run_number
    saved_runs_count,        \* RunTracker.saved_runs_count
    running,                 \* RunTracker._running
    started_monotonic,       \* RunTracker._started_monotonic (None or a reading)
    started_at_dt,           \* RunTracker._started_at_dt     (None or a reading)
    elapsed_ms_accumulated,  \* RunTracker._elapsed_ms_accumulated
    last_record,             \* RunTracker.last_record: <<>> (None) or <<record>>
    header,                  \* the CSV file starts with the header row
    rows,                    \* the data rows of the CSV file, in file order
    last,                    \* the most recent call: operation and result
    pre,                     \* history: log and counters before the latest saving next_run
    trail,                   \* history: position in next_run -> reset_timer -> undo_last_run
    noSessionReset,          \* history: reset_session has not been called yet
    sinceStart,              \* history: no ResetTimer/ResetSession call since the latest
                             \*          NextRun call or starting ToggleStartStop call
    armed,                   \* history: as sinceStart, but a NextRun call counts only
                             \*          when it left a run started
    onlyToggles,             \* history: only toggle_start_stop has been called so far
    ranMs,                   \* history: total time the tracker was running (while onlyToggles)
    log_file,                \* SpecLog: the store a CsvRunLogger points at
    log_ret,                 \* SpecLog: <<>> or the latest undo_last_for_session call
    queue,                   \* SpecApp: D2RunnerApp.command_queue
    files,                   \* SpecApp: the session CSV files, by path in creation order
    logger_path,             \* SpecApp: tracker.logger.csv_path
    current_csv_path,        \* SpecApp: D2RunnerApp.current_csv_path
    draining,                \* SpecApp: the UI thread is inside _drain_hotkey_queue
    enqueued,                \* history: every pair put on the queue, in order
    applied,                 \* history: every pair taken off the queue and handled, in order
    handled,                 \* history: the latest handle_action call, the thread that
                             \*          made it, and the number of calls so far
    gate,                    \* SpecGate: the backend and its configured repeat guard, ms
    gate_now,                \* SpecGate: time.monotonic(), in ms
    gate_last,               \* SpecGate: _last_fired_at / _last_action_at
    gate_moved,              \* SpecGate: the clock has advanced since the latest call
    gate_log,                \* history: every call of the gate: id, instant, result
    combo_parts,             \* SpecCombo: the parts the combo string was typed from
    combo,                   \* SpecCombo: the combo string, a sequence of characters
    combo_out,               \* SpecCombo: <<>> or the normalized and the parsed combo
    keyboard_map,            \* SpecKeys: HotkeyBackend.keyboard_map, action -> combo string
    parsed_bindings,         \* SpecKeys: HotkeyBackend._parsed_bindings
    pressed_mods,            \* SpecKeys: HotkeyBackend._pressed_mods
    fired_keys,              \* SpecKeys: HotkeyBackend._fired_keys
    last_action_at,          \* SpecKeys: HotkeyBackend._last_action_at
    kb_now,                  \* SpecKeys: time.monotonic(), in ms
    kb_events,               \* history: the number of key events so far
    kb_only_mods,            \* history: every key event so far was of a modifier key
    kb_emitted,              \* history: the actions passed to on_action, in order
    kb_last,                 \* history: the latest key event: "press" or "release", the key
    kb_held,                 \* history: the tokens whose press emitted an action and that
                             \*          were not released since
    kb_kept,                 \* history: as kb_held, but also emptied by a modifier release
                             \*          that leaves no modifier held
    kb_reload,               \* reload_bindings: its position ("idle" or "swapping", between
                             \*          its two assignments); history: the map it replaced,
                             \*          and whether a key event came since it returned
    pad_cfg,                 \* SpecPad: the D-pad sources found at start, and repeat_guard_ms
    pad_raw,                 \* SpecPad: what the device reports: the native button mask,
                             \*          the hat, the axis pair (in tenths), the buttons down
    prev_xinput_buttons,     \* SpecPad: _run's local, <<>> (None) or <<the mask>>
    prev_hat_value,          \* SpecPad: _run's local, <<>> (None) or <<the hat value>>
    prev_axes_direction,     \* SpecPad: _run's local, <<>> (None) or <<a direction>>
    prev_buttons_pressed,    \* SpecPad: _run's local, the D-pad buttons down at the last poll
    last_fired_at,           \* SpecPad: ControllerBackend._last_fired_at
    pad_now,                 \* SpecPad: time.monotonic(), in ms
    set_form,                \* SpecSet: <<>> or the form the latest Save was pressed on
    set_saves,               \* SpecSet: the number of times Save was pressed
    cfg_file,                \* SpecSet: the controller config file, as its JSON payload
    controller_config,       \* SpecSet: D2RunnerApp.controller_config, which is also the
                             \*          config the controller backend was reloaded with
    set_status,              \* SpecSet: the outcome of the latest Save shown in status_var
    pad_tick,                \* history: the latest tick: its number, whether the device
                             \*          reported the same as in the tick before, the sources
                             \*          polled in order, the direction resolved, the actions
                             \*          emitted
    ctl_config,              \* SpecCtl: ControllerBackend.config
    ctl_available,           \* SpecCtl: ControllerBackend.available
    ctl_thread,              \* SpecCtl: ControllerBackend._thread, 0 (None) or a thread
    ctl_stop,                \* SpecCtl: ControllerBackend._stop, whether the event is set
    ctl_threads,             \* SpecCtl: the threads created by start(), in order: where
                             \*          each is ("starting", "polling", "ended"); history:
                             \*          the config at its start
    ctl_ui,                  \* SpecCtl: the dispatch context: the call it is in ("idle",
                             \*          or "stop"/"reload" waiting in join) with the config
                             \*          a reload was given; history: the call that returned
                             \*          last and how its join ended
    ctl_tick,                \* history: the latest loop iteration: its number, its thread,
                             \*          what the device read gave, the actions emitted
    tick_armed               \* SpecTick: whether root.after holds a pending _tick call

tracker == <<session_id, run_number, saved_runs_count, running, started_monotonic,
             started_at_dt, elapsed_ms_accumulated, last_record>>
history == <<pre, trail, noSessionReset, sinceStart, armed, onlyToggles, ranMs>>
coreVars == <<now, tracker, header, rows, last, history>>
logVars == <<log_file, log_ret>>
appVars == <<queue, files, logger_path, current_csv_path, draining, enqueued, applied,
             handled>>
gateVars == <<gate, gate_now, gate_last, gate_moved, gate_log>>
comboVars == <<combo_parts, combo, combo_out>>
keyVars == <<keyboard_map, parsed_bindings, pressed_mods, fired_keys, last_action_at, kb_now,
             kb_events, kb_only_mods, kb_emitted, kb_last, kb_held, kb_kept, kb_reload>>
padVars == <<pad_cfg, pad_raw, prev_xinput_buttons, prev_hat_value, prev_axes_direction,
             prev_buttons_pressed, last_fired_at, pad_now, pad_tick>>
\* The variables of the specifications after SpecKeys.
setVars == <<set_form, set_saves, cfg_file, controller_config, set_status>>
ctlVars == <<ctl_config, ctl_available, ctl_thread, ctl_stop, ctl_threads, ctl_ui, ctl_tick>>
lateVars == <<ctlVars, tick_armed>>
extVars == <<padVars, setVars, lateVars>>
nonCore == <<logVars, appVars, gateVars, comboVars, keyVars, extVars>>
nonLog == <<coreVars, appVars, gateVars, comboVars, keyVars, extVars>>
nonApp == <<logVars, gateVars, comboVars, keyVars, extVars>>
nonGate == <<coreVars, logVars, appVars, comboVars, keyVars, extVars>>
nonCombo == <<coreVars, logVars, appVars, gateVars, keyVars, extVars>>
nonKeys == <<coreVars, logVars, appVars, gateVars, comboVars, extVars>>
nonPad == <<coreVars, logVars, appVars, gateVars, comboVars, keyVars, setVars, lateVars>>
nonSet == <<coreVars, logVars, appVars, gateVars, comboVars, padVars, pressed_mods,
            fired_keys, last_action_at, kb_now, kb_events, kb_only_mods, kb_emitted,
            kb_last, kb_held, kb_kept, kb_reload, lateVars>>
nonCtl == <<coreVars, logVars, appVars, gateVars, comboVars, keyVars, padVars, setVars,
            tick_armed>>
nonTick == <<logVars, gateVars, comboVars, keyVars, padVars, setVars, ctlVars>>
vars == <<coreVars, nonCore>>

----------------------------------------------------------------------------
(***************************************************************************)
(* Pure helpers.                                                           *)
(***************************************************************************)
Max(a, b) == IF a >= b THEN a ELSE b

\* _iso: isoformat(timespec="seconds") drops everything below one second.
Iso(t) == t \div 1000

\* f"{duration_sec:.3f}" of duration_ms / 1000.0: seconds and three decimals.
DurationSec(ms) == <<ms \div 1000, ms % 1000>>

IsSpace(c) == c = " "

\* str.strip(): drop leading and trailing whitespace.
RECURSIVE LStrip(_)
LStrip(s) == IF s # <<>> /\ IsSpace(Head(s)) THEN LStrip(Tail(s)) ELSE s

RECURSIVE RStrip(_)
RStrip(s) == IF s # <<>> /\ IsSpace(s[Len(s)]) THEN RStrip(SubSeq(s, 1, Len(s) - 1)) ELSE s

\* Mutation of strip(): only leading whitespace is dropped.
Strip_leftOnly(s) == LStrip(s)

Strip(s) == RStrip(LStrip(s))

\* RunRecord as next_run constructs it.
RunRecord(sid, num, started, ended, ms, note) ==
    [session_id |-> sid, run_number |-> num, started_at |-> Iso(started),
     ended_at |-> Iso(ended), duration_ms |-> ms, duration_sec |-> DurationSec(ms),
     note |-> Strip(note)]

----------------------------------------------------------------------------
(***************************************************************************)
(* CsvRunLogger.                                                           *)
(***************************************************************************)
\* A CSV file: whether the path exists, whether the header row is there, and
\* the data rows in file order.
NoFile == [exists |-> FALSE, header |-> FALSE, rows |-> <<>>]

\* Mutation of _ensure_header: a new file is created without the header row.
EnsureHeader_bare(f) ==
    IF f.exists /\ (f.header \/ f.rows # <<>>) THEN f
    ELSE [exists |-> TRUE, header |-> FALSE, rows |-> <<>>]

\* __init__ / _ensure_header: a file that exists with size > 0 is kept,
\* any other is (re)created holding the header row only.
EnsureHeader(f) ==
    IF f.exists /\ (f.header \/ f.rows # <<>>) THEN f
    ELSE [exists |-> TRUE, header |-> TRUE, rows |-> <<>>]

\* Mutation of append: the row is written at the top of the file.
LoggerAppend_front(rs, rec) == <<rec>> \o rs

\* Mutation of append: the row never reaches the file.
LoggerAppend_lost(rs, rec) == rs

\* append: one row is written at the end of the file.
LoggerAppend(rs, rec) == Append(rs, rec)

\* The highest index whose row carries the session id, 0 when there is none.
LastIndexFor(rs, sid) ==
    LET hits == { i \in 1..Len(rs) : rs[i].session_id = sid }
    IN  IF hits = {} THEN 0 ELSE CHOOSE i \in hits : \A j \in hits : j <= i

RemoveAt(rs, idx) == SubSeq(rs, 1, idx - 1) \o SubSeq(rs, idx + 1, Len(rs))

\* Mutation of undo_last_for_session: the scan runs forward and removes the
\* first row of the session instead of the last.
UndoLastForSession_first(rs, sid) ==
    LET hits == { i \in 1..Len(rs) : rs[i].session_id = sid }
    IN  IF hits = {} THEN [undone |-> FALSE, rows |-> rs]
        ELSE [undone |-> TRUE,
              rows |-> RemoveAt(rs, CHOOSE i \in hits : \A j \in hits : i <= j)]

\* undo_last_for_session: [undone, rows after the call].
UndoLastForSession(rs, sid) ==
    LET idx == LastIndexFor(rs, sid)
    IN  IF idx = 0 THEN [undone |-> FALSE, rows |-> rs]
                   ELSE [undone |-> TRUE, rows |-> RemoveAt(rs, idx)]

\* Mutation of undo_last_for_session on a path: the rewrite drops the rows
\* that follow the removed one.
UndoLastForSessionAt_truncates(f, sid) ==
    IF ~f.exists THEN [undone |-> FALSE, file |-> f]
    ELSE LET idx == LastIndexFor(f.rows, sid)
         IN  IF idx = 0 THEN [undone |-> FALSE, file |-> f]
             ELSE [undone |-> TRUE,
                   file |-> [exists |-> TRUE, header |-> TRUE,
                             rows |-> SubSeq(f.rows, 1, idx - 1)]]

\* undo_last_for_session on a path: False when the path does not exist;
\* a successful call rewrites the file as header plus the remaining rows.
UndoLastForSessionAt(f, sid) ==
    IF ~f.exists THEN [undone |-> FALSE, file |-> f]
    ELSE LET u == UndoLastForSession(f.rows, sid)
         IN  IF u.undone
             THEN [undone |-> TRUE,
                   file |-> [exists |-> TRUE, header |-> TRUE, rows |-> u.rows]]
             ELSE [undone |-> FALSE, file |-> f]

CountFor(rs, sid) == Cardinality({ i \in 1..Len(rs) : rs[i].session_id = sid })

----------------------------------------------------------------------------
(***************************************************************************)
(* RunTracker's timer, as a value threaded through start/stop/reset_timer. *)
(***************************************************************************)
Tm == [running |-> running, started_monotonic |-> started_monotonic,
       started_at_dt |-> started_at_dt, acc |-> elapsed_ms_accumulated]

SetTm(tm) ==
    /\ running' = tm.running
    /\ started_monotonic' = tm.started_monotonic
    /\ started_at_dt' = tm.started_at_dt
    /\ elapsed_ms_accumulated' = tm.acc

\* current_elapsed_ms, with t the reading of time.monotonic().
ElapsedOf(tm, t) ==
    LET ms == IF tm.running /\ tm.started_monotonic # None
              THEN tm.acc + (t - tm.started_monotonic)
              ELSE tm.acc
    IN  Max(ms, 0)

CurrentElapsedMs == ElapsedOf(Tm, now)

\* Mutation of start: the start timestamp is stamped but the run is not started.
StartOf_notRunning(tm, t) ==
    IF tm.running THEN tm
    ELSE [tm EXCEPT !.started_at_dt = IF tm.started_at_dt = None THEN t ELSE @]

\* start
StartOf(tm, t) ==
    IF tm.running THEN tm
    ELSE [tm EXCEPT !.started_at_dt = IF tm.started_at_dt = None THEN t ELSE @,
                    !.started_monotonic = t,
                    !.running = TRUE]

\* Mutation of stop: the live delta is not folded into the accumulated time.
StopOf_noFold(tm, t) ==
    IF ~tm.running THEN tm
    ELSE [tm EXCEPT !.started_monotonic = None, !.running = FALSE]

\* stop
StopOf(tm, t) ==
    IF ~tm.running THEN tm
    ELSE [tm EXCEPT !.acc = ElapsedOf(tm, t),
                    !.started_monotonic = None,
                    !.running = FALSE]

\* Mutation of reset_timer: the accumulated time is kept.
ResetTimerOf_keepsAccumulated(tm) ==
    [running |-> FALSE, started_monotonic |-> None, started_at_dt |-> None, acc |-> tm.acc]

\* reset_timer
ResetTimerOf(tm) ==
    [running |-> FALSE, started_monotonic |-> None, started_at_dt |-> None, acc |-> 0]

\* Mutation of the guard: only the elapsed reading is tested.
UndoBlocked_elapsedOnly(tm, t) == ElapsedOf(tm, t) > 0

\* undo_last_run's guard: a current run exists.
UndoBlocked(tm, t) == tm.started_at_dt # None \/ ElapsedOf(tm, t) > 0

\* undo_last_run: "if self.run_number > 1: self.run_number -= 1"
DecRunNumber(n) == IF n > 1 THEN n - 1 ELSE n

\* Mutation: the saved-run counter is left alone by an undo.
DecSavedRuns_kept(n) == n

\* undo_last_run: "if self.saved_runs_count > 0: self.saved_runs_count -= 1"
DecSavedRuns(n) == IF n > 0 THEN n - 1 ELSE n

\* _new_session_id: uuid4().hex[:8], a random draw from the id space.
NewSessionIds == SessionIds

\* Mutation of the limit test: > for >=.
LimitReached_strict(saved, max) == max # <<>> /\ saved > max[1]

\* max_saved_runs is not None and saved_runs_count >= max_saved_runs
LimitReached(saved, max) == max # <<>> /\ saved >= max[1]

Call(o, res) == [op |-> o, res |-> res]

----------------------------------------------------------------------------
\* The tracker after construction on a log file that did not exist.
TrackerInit ==
    /\ now = 0
    /\ session_id \in NewSessionIds
    /\ run_number = 1
    /\ saved_runs_count = 0
    /\ running = FALSE
    /\ started_monotonic = None
    /\ started_at_dt = None
    /\ elapsed_ms_accumulated = 0
    /\ last_record = <<>>
    /\ header = EnsureHeader(NoFile).header
    /\ rows = EnsureHeader(NoFile).rows
    /\ last = Call("init", "")
    /\ pre = <<>>
    /\ trail = 0
    /\ noSessionReset = TRUE
    /\ sinceStart = FALSE
    /\ armed = FALSE
    /\ onlyToggles = TRUE
    /\ ranMs = 0

\* The variables of SpecLog at rest.
LogOff == log_file = NoFile /\ log_ret = <<>>

NoneHandled == [source |-> "", action |-> "", thread |-> "", n |-> 0]

\* The variables of SpecApp at rest.
AppOff ==
    /\ queue = <<>> /\ files = <<>> /\ logger_path = 0 /\ current_csv_path = 0
    /\ draining = FALSE /\ enqueued = <<>> /\ applied = <<>>
    /\ handled = NoneHandled

\* The variables of SpecGate at rest.
GateOff ==
    /\ gate = [backend |-> "", guard |-> 0]
    /\ gate_now = 0 /\ gate_last = <<>> /\ gate_moved = FALSE /\ gate_log = <<>>

\* The variables of SpecCombo at rest.
ComboOff == combo_parts = <<>> /\ combo = <<>> /\ combo_out = <<>>

\* The variables of SpecKeys at rest.
NoReload == [stage |-> "idle", old |-> <<>>, used |-> FALSE]

KeysOff ==
    /\ keyboard_map = <<>> /\ parsed_bindings = <<>>
    /\ pressed_mods = {} /\ fired_keys = {} /\ last_action_at = <<>>
    /\ kb_now = 0 /\ kb_events = 0 /\ kb_only_mods = TRUE /\ kb_emitted = <<>>
    /\ kb_last = <<>> /\ kb_held = {} /\ kb_kept = {} /\ kb_reload = NoReload

NoTick == [n |-> 0, same |-> FALSE, polled |-> <<>>, direction |-> <<>>, emitted |-> <<>>]

PadOff ==
    /\ pad_cfg = <<>> /\ pad_raw = <<>>
    /\ prev_xinput_buttons = <<>> /\ prev_hat_value = <<>> /\ prev_axes_direction = <<>>
    /\ prev_buttons_pressed = {} /\ last_fired_at = <<>> /\ pad_now = 0 /\ pad_tick = NoTick

SetOff == set_form = <<>> /\ set_saves = 0 /\ cfg_file = <<>> /\ controller_config = <<>> /\ set_status = ""

UiIdle == [op |-> "idle", cfg |-> <<>>, last |-> "", join |-> ""]

NoLoop == [n |-> 0, thread |-> 0, read |-> <<>>, emitted |-> <<>>]

CtlOff ==
    /\ ctl_config = <<>> /\ ctl_available = FALSE /\ ctl_thread = 0 /\ ctl_stop = FALSE
    /\ ctl_threads = <<>> /\ ctl_ui = UiIdle /\ ctl_tick = NoLoop

LateOff == CtlOff /\ tick_armed = FALSE

ExtOff == PadOff /\ SetOff /\ LateOff

Init == TrackerInit /\ LogOff /\ AppOff /\ GateOff /\ ComboOff /\ KeysOff /\ ExtOff

\* The clock advances by one millisecond.
Tick ==
    /\ now < MaxTime
    /\ now' = now + 1
    /\ ranMs' = IF onlyToggles /\ running THEN ranMs + 1 ELSE ranMs
    /\ UNCHANGED <<tracker, header, rows, last, pre, trail, noSessionReset, sinceStart, armed,
                   onlyToggles>>

\* toggle_start_stop
ToggleStartStop ==
    /\ IF running
       THEN /\ SetTm(StopOf(Tm, now))
            /\ last' = Call("toggle_start_stop", "stopped")
            /\ UNCHANGED <<sinceStart, armed>>
       ELSE /\ SetTm(StartOf(Tm, now))
            /\ last' = Call("toggle_start_stop", "started")
            /\ sinceStart' = TRUE /\ armed' = TRUE
    /\ trail' = 0 /\ pre' = <<>>
    /\ UNCHANGED <<now, session_id, run_number, saved_runs_count, last_record, header, rows,
                   noSessionReset, onlyToggles, ranMs>>

\* reset_timer
ResetTimer ==
    /\ SetTm(ResetTimerOf(Tm))
    /\ last' = Call("reset_timer", "")
    /\ trail' = IF trail = 1 THEN 2 ELSE 0
    /\ pre' = IF trail = 1 THEN pre ELSE <<>>
    /\ sinceStart' = FALSE /\ armed' = FALSE
    /\ onlyToggles' = FALSE /\ ranMs' = 0
    /\ UNCHANGED <<now, session_id, run_number, saved_runs_count, last_record, header, rows,
                   noSessionReset>>

\* reset_session: the tracker's own fields.
ResetSessionTracker ==
    /\ SetTm(ResetTimerOf(Tm))
    /\ session_id' \in NewSessionIds
    /\ run_number' = 1
    /\ saved_runs_count' = 0
    /\ last_record' = <<>>
    /\ last' = Call("reset_session", "")
    /\ trail' = 0 /\ pre' = <<>>
    /\ noSessionReset' = FALSE
    /\ sinceStart' = FALSE /\ armed' = FALSE
    /\ onlyToggles' = FALSE /\ ranMs' = 0
    /\ UNCHANGED now

\* reset_session called on the tracker alone: the log file is not touched.
ResetSession == ResetSessionTracker /\ UNCHANGED <<header, rows>>

\* next_run(note, max_saved_runs).  The clock is read in stop() and, when the
\* next run is started after a save, again in start(): t2 is that reading.
NextRunWith(note, max, t2) ==
        /\ now <= t2 /\ t2 <= now + 1
        /\ IF started_at_dt # None
           THEN /\ Len(rows) < MaxRows
                /\ LET stopped == StopOf(Tm, now)
                       duration_ms == ElapsedOf(stopped, now)
                       saved == RunRecord(session_id, run_number, started_at_dt, now,
                                          duration_ms, note)
                       cleared == ResetTimerOf(stopped)
                   IN  /\ saved_runs_count' = saved_runs_count + 1
                       /\ run_number' = run_number + 1
                       /\ IF LimitReached(saved_runs_count + 1, max)
                          THEN /\ t2 = now
                               /\ now' = now
                               /\ last' = Call("next_run", "saved_limit_reached")
                               /\ SetTm(cleared)
                               /\ armed' = FALSE
                          ELSE /\ now' = t2
                               /\ last' = Call("next_run", "saved_and_started_next")
                               /\ SetTm(StartOf(cleared, t2))
                               /\ armed' = TRUE
                       /\ rows' = LoggerAppend(rows, saved)
                       /\ last_record' = <<saved>>
                       /\ pre' = <<[rows |-> rows, run_number |-> run_number,
                                    saved_runs_count |-> saved_runs_count]>>
                       /\ trail' = 1
           ELSE /\ t2 = now
                /\ now' = now
                /\ SetTm(StartOf(Tm, now))
                /\ armed' = TRUE
                /\ last' = Call("next_run", "started_first_run")
                /\ pre' = <<>> /\ trail' = 0
                /\ UNCHANGED <<rows, last_record, saved_runs_count, run_number>>
        /\ sinceStart' = TRUE
        /\ onlyToggles' = FALSE /\ ranMs' = 0
        /\ UNCHANGED <<session_id, noSessionReset, header>>

NextRun == \E note \in Notes, max \in MaxSavedChoices, t2 \in Time : NextRunWith(note, max, t2)

\* undo_last_run
UndoLast ==
    /\ IF UndoBlocked(Tm, now)
       THEN /\ last' = Call("undo_last", "active_run_present")
            /\ UNCHANGED <<header, rows, run_number, saved_runs_count>>
       ELSE LET u == UndoLastForSessionAt([exists |-> TRUE, header |-> header,
                                           rows |-> rows], session_id)
            IN  IF ~u.undone
                THEN /\ last' = Call("undo_last", "no_rows")
                     /\ UNCHANGED <<header, rows, run_number, saved_runs_count>>
                ELSE /\ header' = u.file.header
                     /\ rows' = u.file.rows
                     /\ run_number' = DecRunNumber(run_number)
                     /\ saved_runs_count' = DecSavedRuns(saved_runs_count)
                     /\ last' = Call("undo_last", "ok")
    /\ trail' = IF trail = 2 THEN 3 ELSE IF trail = 1 /\ UndoBlocked(Tm, now) THEN 1 ELSE 0
    /\ pre' = IF trail' = 0 THEN <<>> ELSE pre
    /\ onlyToggles' = FALSE /\ ranMs' = 0
    /\ UNCHANGED <<now, session_id, running, started_monotonic, started_at_dt,
                   elapsed_ms_accumulated, last_record, noSessionReset, sinceStart, armed>>

Next ==
    \/ Tick /\ UNCHANGED nonCore
    \/ ToggleStartStop /\ UNCHANGED nonCore
    \/ NextRun /\ UNCHANGED nonCore
    \/ ResetTimer /\ UNCHANGED nonCore
    \/ ResetSession /\ UNCHANGED nonCore
    \/ UndoLast /\ UNCHANGED nonCore

Spec == Init /\ [][Next]_vars

TypeOK ==
    /\ now \in Time
    /\ session_id \in SessionIds
    /\ run_number \in 1..(MaxRows + 1)
    /\ saved_runs_count \in 0..MaxRows
    /\ running \in BOOLEAN
    /\ started_monotonic \in Time \cup {None}
    /\ started_at_dt \in Time \cup {None}
    /\ elapsed_ms_accumulated \in Time
    /\ Len(last_record) <= 1
    /\ Len(rows) <= MaxRows
    /\ trail \in 0..3
    /\ header \in BOOLEAN

----------------------------------------------------------------------------
(***************************************************************************)
(* Properties.                                                             *)
(***************************************************************************)
Idle == ~running /\ started_monotonic = None /\ started_at_dt = None
        /\ elapsed_ms_accumulated = 0

Spaces(n) == [i \in 1..n |-> " "]

\* s is raw without its leading and trailing whitespace.
IsTrimOf(s, raw) ==
    /\ s = <<>> \/ (s[1] # " " /\ s[Len(s)] # " ")
    /\ Len(s) <= Len(raw)
    /\ \E i \in 0..(Len(raw) - Len(s)) :
          raw = Spaces(i) \o s \o Spaces(Len(raw) - Len(s) - i)

\* Steps of one operation.  The first conjunct follows from the second; it
\* spares evaluating the operation on the steps of the others.
NextRunStep == last'.op = "next_run" /\ NextRun
UndoLastStep == last'.op = "undo_last" /\ UndoLast
ResetTimerStep == last'.op = "reset_timer" /\ ResetTimer
ResetSessionStep == last'.op = "reset_session" /\ ResetSession

\* C1: in a run of calls with no ResetSession, every NextRun call raises
\* run_number by exactly the number of records it saved (0 or 1), and after
\* the call run_number is the number of log rows of the current session id
\* plus one.
C1_RunNumbering ==
    [][(NextRunStep /\ noSessionReset) =>
        /\ Len(rows') - Len(rows) \in {0, 1}
        /\ run_number' = run_number + (Len(rows') - Len(rows))
        /\ run_number' = CountFor(rows', session_id') + 1]_vars

C1_Witness ==
    /\ noSessionReset
    /\ last.op = "next_run" /\ last.res = "saved_and_started_next"
    /\ Len(rows) = 2 /\ run_number = 3

\* C2 (as stated): UndoLast fails with active_run_present whenever ResetTimer
\* has not been called since the latest NextRun call or starting
\* ToggleStartStop call, and then leaves log and counters unchanged.
C2_UndoBlockedSinceAnyNextRun ==
    [][(UndoLastStep /\ sinceStart) =>
        /\ last'.res = "active_run_present"
        /\ UNCHANGED <<rows, run_number, saved_runs_count>>]_vars

\* C2 (amended): UndoLast fails with active_run_present whenever no reset
\* has been called since the latest starting ToggleStartStop call or the
\* latest NextRun call that left a run started (one that did not return
\* saved_limit_reached), whatever the elapsed reading; on that failure the
\* log, run_number and saved_runs_count are unchanged.
C2_UndoBlockedWhileRunStarted ==
    [][(UndoLastStep /\ armed) =>
        /\ last'.res = "active_run_present"
        /\ UNCHANGED <<rows, run_number, saved_runs_count>>]_vars

\* The undo was refused on a stopped tracker that reads zero elapsed time.
C2_Witness ==
    /\ last.op = "undo_last" /\ last.res = "active_run_present"
    /\ armed /\ ~running /\ CurrentElapsedMs = 0
    /\ Len(rows) > 0

\* C3: NextRun (saving a record), ResetTimer, UndoLast is a round trip: the
\* undo succeeds and the log, run_number and saved_runs_count are what they
\* were before the NextRun; an UndoLast right after a NextRun that started
\* the next run fails with active_run_present.
C3_NextResetUndoRoundTrip ==
    [][/\ trail' = 3 =>
            /\ last'.res = "ok"
            /\ rows' = pre'[1].rows
            /\ run_number' = pre'[1].run_number
            /\ saved_runs_count' = pre'[1].saved_runs_count
       /\ (UndoLastStep /\ trail = 1 /\ last.res = "saved_and_started_next") =>
            last'.res = "active_run_present"]_vars

\* The round trip was made with an earlier row of the session in the log.
C3_Witness ==
    /\ trail = 3 /\ last.res = "ok"
    /\ Len(rows) = 1 /\ CountFor(rows, session_id) = 1

\* C4: NextRun with the start timestamp set appends exactly one record with
\* the current session id, the pre-call run_number, the trimmed note and the
\* elapsed time at the call; both counters go up by one; the timer reads
\* zero; unless the limit is met the tracker runs again and the result is
\* saved_and_started_next.
C4_NextRunSavesOneRecord ==
    [][\A note \in Notes, max \in MaxSavedChoices :
       (last'.op = "next_run" /\ started_at_dt # None /\ NextRunWith(note, max, now')) =>
        /\ Len(rows') = Len(rows) + 1
        /\ SubSeq(rows', 1, Len(rows)) = rows
        /\ LET rec == rows'[Len(rows')]
           IN  /\ rec.session_id = session_id
               /\ rec.run_number = run_number
               /\ IsTrimOf(rec.note, note)
               /\ rec.duration_ms = CurrentElapsedMs
               /\ last_record' = <<rec>>
        /\ saved_runs_count' = saved_runs_count + 1
        /\ run_number' = run_number + 1
        /\ elapsed_ms_accumulated' = 0
        /\ CurrentElapsedMs' = 0
        /\ ~(max # <<>> /\ saved_runs_count' >= max[1]) =>
              (running' /\ last'.res = "saved_and_started_next")]_vars

\* A record of nonzero duration and trimmed note was saved and the next run started.
C4_Witness ==
    /\ last.op = "next_run" /\ last.res = "saved_and_started_next"
    /\ rows # <<>> /\ rows[Len(rows)].duration_ms > 0
    /\ rows[Len(rows)].note = <<"b">>
    /\ running

\* C5: NextRun with the start timestamp unset only starts a run: the result
\* is started_first_run, nothing is appended, and run_number,
\* saved_runs_count, session id and last_record are unchanged.
C5_NextRunOnlyStarts ==
    [][(NextRunStep /\ started_at_dt = None) =>
        /\ last'.res = "started_first_run"
        /\ running' /\ started_at_dt' # None
        /\ UNCHANGED <<rows, run_number, saved_runs_count, session_id, last_record>>]_vars

C5_Witness ==
    /\ last.op = "next_run" /\ last.res = "started_first_run"
    /\ running /\ rows # <<>> /\ last_record # <<>>

\* C6: a saving NextRun whose new saved_runs_count meets or exceeds
\* maxSavedRuns returns saved_limit_reached and leaves the tracker not
\* running, at zero elapsed, with no start timestamp; any other saving
\* NextRun returns saved_and_started_next and leaves the tracker running.
C6_LimitStopsAutoRestart ==
    [][\A note \in Notes, max \in MaxSavedChoices :
       (last'.op = "next_run" /\ started_at_dt # None /\ NextRunWith(note, max, now')) =>
        IF max # <<>> /\ saved_runs_count' >= max[1]
        THEN /\ last'.res = "saved_limit_reached"
             /\ ~running' /\ CurrentElapsedMs' = 0
             /\ started_at_dt' = None /\ started_monotonic' = None
        ELSE /\ last'.res = "saved_and_started_next"
             /\ running']_vars

\* The limit was met by the second saved run of the session.
C6_Witness ==
    /\ last.op = "next_run" /\ last.res = "saved_limit_reached"
    /\ saved_runs_count = 2
    /\ ~running /\ started_at_dt = None

\* C7: ResetTimer clears the running flag, the start instant, the start
\* timestamp and the accumulated time, and leaves run_number, session id,
\* saved_runs_count, last_record and the log unchanged.
C7_ResetTimerFrame ==
    [][ResetTimerStep =>
        /\ ~running' /\ started_monotonic' = None /\ started_at_dt' = None
        /\ elapsed_ms_accumulated' = 0 /\ CurrentElapsedMs' = 0
        /\ UNCHANGED <<run_number, session_id, saved_runs_count, last_record, rows>>]_vars

C7_Witness ==
    /\ last.op = "reset_timer" /\ Idle
    /\ run_number > 1 /\ saved_runs_count > 0 /\ last_record # <<>> /\ rows # <<>>

\* C8: ResetSession leaves the tracker idle, assigns a session id different
\* from the previous one, sets run_number to 1 and saved_runs_count to 0,
\* clears last_record and leaves the log as it was.
C8_ResetSessionNewIdentity ==
    [][ResetSessionStep =>
        /\ Idle'
        /\ session_id' # session_id
        /\ run_number' = 1 /\ saved_runs_count' = 0 /\ last_record' = <<>>
        /\ rows' = rows]_vars

\* C9: UndoLast on an idle tracker whose session has no row in the log
\* reports no_rows and changes neither counters nor log; a successful
\* UndoLast lowers run_number by one but not below 1 and saved_runs_count by
\* one but not below 0.
C9_UndoNoRowsAndFloors ==
    [][UndoLastStep =>
        /\ (Idle /\ CountFor(rows, session_id) = 0) =>
              /\ last'.res = "no_rows"
              /\ UNCHANGED <<rows, run_number, saved_runs_count>>
        /\ last'.res = "ok" =>
              /\ run_number' = Max(run_number - 1, 1)
              /\ saved_runs_count' = Max(saved_runs_count - 1, 0)]_vars

C9_Witness ==
    /\ last.op = "undo_last" /\ last.res = "ok"
    /\ run_number = 1 /\ saved_runs_count = 0

\* C10: while only ToggleStartStop has been called, the elapsed time is the
\* total time during which the tracker was running, the live interval
\* included; it is never negative, and a stopped tracker holds no start
\* instant.
C10_ElapsedIsTimeSpentRunning ==
    onlyToggles =>
        /\ CurrentElapsedMs = ranMs
        /\ CurrentElapsedMs >= 0
        /\ running <=> started_monotonic # None
        /\ ~running => elapsed_ms_accumulated = ranMs

\* A second running interval is live on top of a folded first one.
C10_Witness ==
    /\ onlyToggles /\ running
    /\ elapsed_ms_accumulated > 0 /\ CurrentElapsedMs > elapsed_ms_accumulated

\* C12: the log is append-only.  The header row is in the file before and
\* after every step, so before any data row; a step changes the rows only
\* by a NextRun that adds one row at the end and leaves the earlier rows as
\* they were, in their order, or by a successful UndoLast that removes the
\* last row carrying the current session id and nothing else.
C12_AppendOnlyLog ==
    [][/\ header /\ header'
       /\ \/ rows' = rows
          \/ /\ last'.op = "next_run"
             /\ Len(rows') = Len(rows) + 1
             /\ SubSeq(rows', 1, Len(rows)) = rows
          \/ /\ last'.op = "undo_last" /\ last'.res = "ok"
             /\ Len(rows') = Len(rows) - 1
             /\ \E k \in 1..Len(rows) :
                    /\ rows[k].session_id = session_id
                    /\ \A j \in (k + 1)..Len(rows) : rows[j].session_id # session_id
                    /\ \A i \in 1..(k - 1) : rows'[i] = rows[i]
                    /\ \A i \in k..Len(rows') : rows'[i] = rows[i + 1]]_vars

\* An undo removed a row that was followed by a row of another session.
C12_Witness ==
    /\ last.op = "undo_last" /\ last.res = "ok"
    /\ header /\ Len(rows) = 1 /\ rows[1].session_id # session_id

----------------------------------------------------------------------------
(***************************************************************************)
(* SpecLog: CsvRunLogger.undo_last_for_session as a function of the store  *)
(* and the session id.  The store is drawn: no file at the path, or a file *)
(* with the header and up to MaxLogLen rows of any sessions in any order.  *)
(***************************************************************************)
LogRecords == { RunRecord(s, n, 0, 0, 0, <<>>) : s \in SessionIds, n \in 1..2 }

LogStores ==
    {NoFile} \cup
    { [exists |-> TRUE, header |-> TRUE, rows |-> rs] :
        rs \in UNION { [1..n -> LogRecords] : n \in 0..MaxLogLen } }

InitLog ==
    /\ TrackerInit /\ session_id = 1
    /\ log_file \in LogStores
    /\ log_ret = <<>>
    /\ AppOff /\ GateOff /\ ComboOff /\ KeysOff /\ ExtOff

\* One call of undo_last_for_session(sid) on the store.
LogUndoLast ==
    \E sid \in SessionIds :
        LET u == UndoLastForSessionAt(log_file, sid)
        IN  /\ log_file' = u.file
            /\ log_ret' = <<[undone |-> u.undone, sid |-> sid, before |-> log_file]>>
            /\ UNCHANGED nonLog

NextLog == LogUndoLast

SpecLog == InitLog /\ [][NextLog]_vars

\* C11: undo_last_for_session removes exactly one row, the last one in file
\* order that carries the session id, and leaves every other row, of any
\* session and at any position, with its content and in its order; when the
\* path does not exist or no row carries the id it returns False and the
\* store is as it was.
C11_RemovesLastMatchingRowOnly ==
    log_ret # <<>> =>
        LET r == log_ret[1]
            b == r.before
            hits == { i \in 1..Len(b.rows) : b.rows[i].session_id = r.sid }
        IN  IF b.exists /\ hits # {}
            THEN /\ r.undone
                 /\ log_file.exists
                 /\ Len(log_file.rows) = Len(b.rows) - 1
                 /\ \E k \in hits :
                        /\ \A j \in hits : j <= k
                        /\ \A i \in 1..(k - 1) : log_file.rows[i] = b.rows[i]
                        /\ \A i \in k..(Len(b.rows) - 1) : log_file.rows[i] = b.rows[i + 1]
            ELSE /\ ~r.undone
                 /\ log_file = b

\* The session's second row was removed from between rows of another session.
C11_Witness ==
    /\ log_ret # <<>> /\ log_ret[1].undone
    /\ Len(log_ret[1].before.rows) = 3
    /\ log_ret[1].before.rows[1].session_id = log_ret[1].sid
    /\ log_ret[1].before.rows[2].session_id = log_ret[1].sid
    /\ log_ret[1].before.rows[3].session_id # log_ret[1].sid
    /\ log_file.rows = <<log_ret[1].before.rows[1], log_ret[1].before.rows[3]>>

\* The call was made on a path that does not exist.
C11_WitnessNoStore ==
    /\ log_ret # <<>> /\ ~log_ret[1].before.exists /\ ~log_ret[1].undone

----------------------------------------------------------------------------
(***************************************************************************)
(* SpecApp: D2RunnerApp.  The listener thread of HotkeyBackend and the     *)
(* poll thread of ControllerBackend call their on_action callback; the UI  *)
(* thread runs _tick, the button commands and handle_action.  files holds  *)
(* the content of every session CSV file; header and rows are the content  *)
(* of the file at tracker.logger.csv_path.                                 *)
(***************************************************************************)
\* hotkeys.ACTION_ORDER; the values of dpad_map are the same five (or "none",
\* which the poll loop drops).
ACTION_ORDER ==
    <<"toggle_start_stop", "next_run", "reset_timer", "reset_session", "undo_last">>

Actions == { ACTION_ORDER[i] : i \in 1..Len(ACTION_ORDER) }

\* _run_limit_reached
RunLimitReached == saved_runs_count >= SESSION_RUN_LIMIT

\* Mutation of _is_blocked_by_run_limit: next_run is let through.
IsBlockedByRunLimit_allowsNextRun(a) ==
    RunLimitReached /\ a \in {"toggle_start_stop", "reset_timer", "undo_last"}

\* _is_blocked_by_run_limit
IsBlockedByRunLimit(a) ==
    RunLimitReached /\ a \in {"toggle_start_stop", "next_run", "reset_timer", "undo_last"}

\* _new_session_csv_path: the first candidate path that does not exist.
NewSessionCsvPath(fs) == Len(fs) + 1

\* Mutation of _rotate_session_csv: the new logger is created but the
\* tracker keeps the old one.
RotatedLog_keepsLogger(fs, lp) ==
    LET p == NewSessionCsvPath(fs)
    IN  [files |-> Append(fs, EnsureHeader(NoFile)), logger_path |-> lp,
         current_csv_path |-> p]

\* _rotate_session_csv: a logger on a new path replaces the tracker's logger.
RotatedLog(fs, lp) ==
    LET p == NewSessionCsvPath(fs)
    IN  [files |-> Append(fs, EnsureHeader(NoFile)), logger_path |-> p,
         current_csv_path |-> p]

\* queue.Queue.put
QueuePut(q, item) == Append(q, item)

\* Mutation of get_nowait: the newest item is taken.
QueueGet_lifo(q) == [item |-> q[Len(q)], rest |-> SubSeq(q, 1, Len(q) - 1)]

\* queue.Queue.get_nowait on a queue that is not empty
QueueGet(q) == [item |-> Head(q), rest |-> Tail(q)]

LiveFile == [exists |-> TRUE, header |-> header, rows |-> rows]

\* handle_action(action): the tracker and the files.
HandleAction(a) ==
    IF IsBlockedByRunLimit(a)
    THEN UNCHANGED <<coreVars, files, logger_path, current_csv_path>>
    ELSE \/ /\ a = "reset_session"
            /\ LET rot == RotatedLog(files, logger_path)
               IN  /\ files' = rot.files
                   /\ logger_path' = rot.logger_path
                   /\ current_csv_path' = rot.current_csv_path
                   /\ header' = rot.files[rot.logger_path].header
                   /\ rows' = rot.files[rot.logger_path].rows
            /\ ResetSessionTracker
         \/ /\ a # "reset_session"
            /\ \/ a = "toggle_start_stop" /\ ToggleStartStop
               \/ /\ a = "next_run"
                  /\ \E note \in Notes, t2 \in Time :
                         NextRunWith(note, <<SESSION_RUN_LIMIT>>, t2)
               \/ a = "reset_timer" /\ ResetTimer
               \/ a = "undo_last" /\ UndoLast
            /\ files' = [files EXCEPT ![logger_path] = LiveFile']
            /\ UNCHANGED <<logger_path, current_csv_path>>

Handled(src, thread, a) ==
    [source |-> src, action |-> a, thread |-> thread, n |-> handled.n + 1]

\* Mutation of the callback: the listener thread calls handle_action itself.
OnAction_direct(src, thread, a) ==
    /\ HandleAction(a)
    /\ handled' = Handled(src, thread, a)
    /\ UNCHANGED <<queue, enqueued, draining, applied>>

\* lambda action: self.command_queue.put((source, action)), run by a source's thread
OnAction(src, thread, a) ==
    /\ queue' = QueuePut(queue, <<src, a>>)
    /\ enqueued' = Append(enqueued, <<src, a>>)
    /\ UNCHANGED <<coreVars, files, logger_path, current_csv_path, draining, applied, handled>>

\* Puts and clicks so far.
Events == Len(enqueued) + (handled.n - Len(applied))

\* The keyboard listener fires an action.
KeyboardPut ==
    \E a \in Actions : Events < MaxEvents /\ OnAction("global_hotkey", "keyboard", a)

\* The controller poll loop fires an action.
ControllerPut ==
    \E a \in Actions : Events < MaxEvents /\ OnAction("controller", "controller", a)

\* A button or a window shortcut: handle_action runs at once, in the UI thread.
ButtonClick ==
    \E a \in Actions :
        /\ Events < MaxEvents
        /\ ~draining
        /\ HandleAction(a)
        /\ handled' = Handled("button", "ui", a)
        /\ UNCHANGED <<queue, draining, enqueued, applied>>

\* _tick enters _drain_hotkey_queue.
TickBegin ==
    /\ ~draining
    /\ draining' = TRUE
    /\ UNCHANGED <<coreVars, queue, files, logger_path, current_csv_path, enqueued, applied,
                   handled>>

\* One turn of the loop: get_nowait returns a pair, handle_action applies it.
DrainOne ==
    /\ draining
    /\ queue # <<>>
    /\ LET g == QueueGet(queue)
       IN  /\ queue' = g.rest
           /\ applied' = Append(applied, g.item)
           /\ handled' = Handled(g.item[1], "ui", g.item[2])
           /\ HandleAction(g.item[2])
    /\ UNCHANGED <<draining, enqueued>>

\* get_nowait raises Empty: the loop ends and _tick re-arms itself.
DrainEnd ==
    /\ draining
    /\ queue = <<>>
    /\ draining' = FALSE
    /\ UNCHANGED <<coreVars, queue, files, logger_path, current_csv_path, enqueued, applied,
                   handled>>

\* __init__: a new session file, the tracker on it, an empty queue.
InitApp ==
    /\ TrackerInit
    /\ LogOff /\ GateOff /\ ComboOff /\ KeysOff /\ ExtOff
    /\ queue = <<>>
    /\ files = <<EnsureHeader(NoFile)>>
    /\ logger_path = 1 /\ current_csv_path = 1
    /\ draining = FALSE
    /\ enqueued = <<>> /\ applied = <<>>
    /\ handled = NoneHandled

NextApp ==
    \/ KeyboardPut /\ UNCHANGED nonApp
    \/ ControllerPut /\ UNCHANGED nonApp
    \/ ButtonClick /\ UNCHANGED nonApp
    \/ TickBegin /\ UNCHANGED nonApp
    \/ DrainOne /\ UNCHANGED nonApp
    \/ DrainEnd /\ UNCHANGED nonApp

SpecApp == InitApp /\ [][NextApp]_vars

\* A handle_action call is made in this step / for this action.
HandleStep == handled'.n = handled.n + 1
ResetSessionDispatched == HandleStep /\ handled'.action = "reset_session"

\* C13: the tracker's backing log changes to another file only in a step
\* that handles reset_session, and every such step moves it to a file that
\* did not exist and holds the header only; the files that existed keep
\* their content through the rotation, and in every step a file that is not
\* the backing log after the step is left as it was, so the log of an
\* earlier session is never written again.
C13_RotationOnlyOnResetSession ==
    [][/\ (logger_path' # logger_path \/ current_csv_path' # current_csv_path
             \/ Len(files') # Len(files)) => ResetSessionDispatched
       /\ ResetSessionDispatched =>
             /\ logger_path' = Len(files) + 1
             /\ current_csv_path' = logger_path'
             /\ Len(files') = Len(files) + 1
             /\ files'[logger_path'] = [exists |-> TRUE, header |-> TRUE, rows |-> <<>>]
             /\ header' /\ rows' = <<>>
             /\ \A p \in 1..Len(files) : files'[p] = files[p]
       /\ \A p \in 1..Len(files) : p # logger_path' => files'[p] = files[p]
       /\ files'[logger_path'] = LiveFile']_vars

\* A reset_session taken off the queue left the first session's row in the
\* first file and the tracker on a second, empty file.
C13_Witness ==
    /\ handled.action = "reset_session" /\ handled.source = "controller"
    /\ Len(files) = 2 /\ Len(files[1].rows) = 1
    /\ logger_path = 2 /\ rows = <<>> /\ header

\* C14: the pairs taken off the queue and handled, followed by the pairs
\* still in the queue, are the pairs put on it, in the order of the puts,
\* whichever threads put them and whenever; a step takes at most one pair
\* off, and handles that pair: unless the run limit blocks the action, the
\* tracker operation of that action is the one called.
C14_FifoExactlyOnce ==
    [][/\ applied' \o queue' = enqueued'
       /\ applied' # applied =>
             /\ Len(applied') = Len(applied) + 1
             /\ SubSeq(applied', 1, Len(applied)) = applied
             /\ LET item == applied'[Len(applied')]
                IN  /\ HandleStep
                    /\ handled'.source = item[1] /\ handled'.action = item[2]
                    /\ IsBlockedByRunLimit(item[2]) \/ last'.op = item[2]]_vars

\* Pairs of both sources were handled in the order of their puts while
\* another put arrived during the drain.
C14_Witness ==
    /\ Len(applied) = 2 /\ applied[1][1] # applied[2][1]
    /\ applied[1][2] = "next_run" /\ applied[2][2] = "next_run"
    /\ draining /\ Len(queue) = 1 /\ Len(rows) = 1

\* C15: a step in which a source puts a pair on the queue appends that pair
\* and changes neither the tracker nor any log file; the tracker and the
\* log files change only in a step that is one handle_action call, and
\* every handle_action call is made by the UI thread.
C15_SourcesOnlyEnqueue ==
    [][/\ enqueued' # enqueued =>
             /\ UNCHANGED <<tracker, header, rows, files, logger_path, current_csv_path,
                            handled>>
             /\ queue' = Append(queue, enqueued'[Len(enqueued')])
       /\ <<tracker, header, rows, files, logger_path>>'
             # <<tracker, header, rows, files, logger_path>> => HandleStep
       /\ handled' # handled => handled'.thread = "ui"]_vars

\* A pair put by the keyboard listener was handled by the UI thread while a
\* pair of the controller waits in the queue.
C15_Witness ==
    /\ handled.source = "global_hotkey" /\ handled.thread = "ui"
    /\ running /\ Len(queue) = 1 /\ queue[1][1] = "controller"

----------------------------------------------------------------------------
(***************************************************************************)
(* SpecGate: the repeat guard.  ControllerBackend._should_throttle gates   *)
(* a direction with the configured repeat_guard_ms, floored at 0;          *)
(* HotkeyBackend._should_throttle_action gates an action with its fixed    *)
(* _repeat_guard_ms.  The gate is called at instants some gaps apart.      *)
(***************************************************************************)
CONTROLLER_REPEAT_GUARD_MS == 150     \* ControllerConfig.repeat_guard_ms, the default
HOTKEY_REPEAT_GUARD_MS == 700         \* HotkeyBackend._repeat_guard_ms

\* The ids that are gated: d-pad directions, or actions.
GateIds == {"up", "right"}

\* The backends with the repeat guards they can be configured with.
Gates ==
    { [backend |-> "controller", guard |-> g] : g \in {-1, 0, CONTROLLER_REPEAT_GUARD_MS} }
    \cup { [backend |-> "hotkeys", guard |-> HOTKEY_REPEAT_GUARD_MS] }

\* The time between two calls of the gate.
GateGaps ==
    {1, CONTROLLER_REPEAT_GUARD_MS - 1, CONTROLLER_REPEAT_GUARD_MS,
     HOTKEY_REPEAT_GUARD_MS - 1, HOTKEY_REPEAT_GUARD_MS}

\* max(self.config.repeat_guard_ms, 0) / self._repeat_guard_ms
EffectiveGuard(g) == IF g.backend = "controller" THEN Max(g.guard, 0) ELSE g.guard

\* Mutation of the comparison: <= for <.
ShouldThrottle_inclusive(lastmap, guard, id, t) ==
    [ret |-> lastmap[id] # None /\ (t - lastmap[id]) <= guard,
     last |-> [lastmap EXCEPT ![id] = t]]

\* Mutation: the instant is stored only by a call that is let through.
ShouldThrottle_fromLastFire(lastmap, guard, id, t) ==
    LET ret == lastmap[id] # None /\ (t - lastmap[id]) < guard
    IN  [ret |-> ret, last |-> IF ret THEN lastmap ELSE [lastmap EXCEPT ![id] = t]]

\* _should_throttle / _should_throttle_action at instant t: the instant is
\* stored for the id on every call; [result, the map after the call].
ShouldThrottle(lastmap, guard, id, t) ==
    [ret |-> lastmap[id] # None /\ (t - lastmap[id]) < guard,
     last |-> [lastmap EXCEPT ![id] = t]]

InitGate ==
    /\ TrackerInit /\ session_id = 1
    /\ LogOff /\ AppOff /\ ComboOff /\ KeysOff /\ ExtOff
    /\ gate \in Gates
    /\ gate_now = 0
    /\ gate_last = [i \in GateIds |-> None]
    /\ gate_moved = FALSE
    /\ gate_log = <<>>

\* Time passes between two calls.
GateAdvance ==
    /\ ~gate_moved
    /\ Len(gate_log) < MaxCalls
    /\ \E d \in GateGaps : gate_now' = gate_now + d
    /\ gate_moved' = TRUE
    /\ UNCHANGED <<gate, gate_last, gate_log>>

\* The backend asks the gate about an id.
GateCall ==
    \E id \in GateIds :
        /\ Len(gate_log) < MaxCalls
        /\ LET r == ShouldThrottle(gate_last, EffectiveGuard(gate), id, gate_now)
           IN  /\ gate_last' = r.last
               /\ gate_log' = Append(gate_log, [id |-> id, t |-> gate_now, ret |-> r.ret])
        /\ gate_moved' = FALSE
        /\ UNCHANGED <<gate, gate_now>>

NextGate ==
    \/ GateAdvance /\ UNCHANGED nonGate
    \/ GateCall /\ UNCHANGED nonGate

SpecGate == InitGate /\ [][NextGate]_vars

\* C16: a call of the gate answers "suppress" exactly when the same id was
\* asked before and the time since the latest earlier call on that id is
\* less than the guard: the first call on an id is never suppressed, of two
\* calls on an id the second is suppressed when they are less than the
\* guard apart and not when they are the guard or more apart, calls on
\* other ids do not count, and a guard of 0 or less suppresses nothing.
C16_DebounceGate ==
    \A k \in 1..Len(gate_log) :
        LET c == gate_log[k]
            prevs == { j \in 1..(k - 1) : gate_log[j].id = c.id }
        IN  IF prevs = {} THEN ~c.ret
            ELSE LET j == CHOOSE i \in prevs : \A h \in prevs : h <= i
                 IN  c.ret <=> (gate.guard > 0 /\ c.t - gate_log[j].t < gate.guard)

\* With the guard at 150 ms an id was asked again 149 ms later and
\* suppressed, a call on another id in between notwithstanding, and asked
\* once more 150 ms after that and let through.
C16_Witness ==
    /\ gate.guard = CONTROLLER_REPEAT_GUARD_MS
    /\ Len(gate_log) = 3
    /\ gate_log[1].id = gate_log[2].id /\ gate_log[2].id = gate_log[3].id
    /\ gate_log[2].t - gate_log[1].t = CONTROLLER_REPEAT_GUARD_MS - 1
    /\ gate_log[3].t - gate_log[2].t = CONTROLLER_REPEAT_GUARD_MS
    /\ ~gate_log[1].ret /\ gate_log[2].ret /\ ~gate_log[3].ret

\* The calls on an id, as their positions in the log, in order.
CallsOn(id) == SelectSeq([k \in 1..Len(gate_log) |-> k], LAMBDA k : gate_log[k].id = id)

\* C24: the instant remembered for an id is the instant of its latest call,
\* suppressed or not; and in a run of calls on one id, each less than the
\* guard after the one before it, every call after the first of the run is
\* suppressed, however far it is from the first.
C24_GuardSlides ==
    \A id \in GateIds :
        LET ks == CallsOn(id)
        IN  /\ gate_last[id] = IF ks = <<>> THEN None ELSE gate_log[ks[Len(ks)]].t
            /\ \A a \in 1..Len(ks) : \A b \in (a + 1)..Len(ks) :
                  (\A m \in a..(b - 1) :
                      gate_log[ks[m + 1]].t - gate_log[ks[m]].t < EffectiveGuard(gate))
                  => gate_log[ks[b]].ret

\* C24's case: with the guard at 150 ms an id is asked three times, 149 ms
\* apart each; the third call is 298 ms after the first, the only one let
\* through, and is suppressed.
C24_Witness ==
    /\ gate.guard = CONTROLLER_REPEAT_GUARD_MS
    /\ Len(gate_log) = 3
    /\ gate_log[1].id = gate_log[2].id /\ gate_log[2].id = gate_log[3].id
    /\ gate_log[2].t - gate_log[1].t = CONTROLLER_REPEAT_GUARD_MS - 1
    /\ gate_log[3].t - gate_log[2].t = CONTROLLER_REPEAT_GUARD_MS - 1
    /\ ~gate_log[1].ret /\ gate_log[2].ret /\ gate_log[3].ret
    /\ gate_last[gate_log[3].id] = gate_log[3].t

----------------------------------------------------------------------------
(***************************************************************************)
(* SpecCombo: the combo codec of hotkeys.py.  A string is a sequence of    *)
(* characters.  The input is typed as parts joined by "+"; each part says  *)
(* which modifier or which key its writer meant by it.                     *)
(***************************************************************************)
UpperCase ==
    <<"A", "B", "C", "D", "E", "F", "G", "H", "I", "J", "K", "L"
     , "M", "N", "O", "P", "Q", "R", "S", "T", "U", "V", "W", "X", "Y", "Z">>
LowerCase ==
    <<"a", "b", "c", "d", "e", "f", "g", "h", "i", "j", "k", "l"
     , "m", "n", "o", "p", "q", "r", "s", "t", "u", "v", "w", "x", "y", "z">>

\* str.lower()
LowerChar(c) ==
    IF \E i \in 1..Len(UpperCase) : UpperCase[i] = c
    THEN LowerCase[CHOOSE i \in 1..Len(UpperCase) : UpperCase[i] = c]
    ELSE c

Lower(str) == [i \in 1..Len(str) |-> LowerChar(str[i])]

\* str.split("+"): the pieces between the separators, empty ones included.
RECURSIVE Split(_)
Split(str) ==
    IF \E i \in 1..Len(str) : str[i] = "+"
    THEN LET i == CHOOSE k \in 1..Len(str) :
                     str[k] = "+" /\ \A j \in 1..(k - 1) : str[j] # "+"
         IN  <<SubSeq(str, 1, i - 1)>> \o Split(SubSeq(str, i + 1, Len(str)))
    ELSE <<str>>

\* "+".join(parts)
RECURSIVE Join(_)
Join(parts) ==
    IF parts = <<>> THEN <<>>
    ELSE IF Len(parts) = 1 THEN parts[1]
    ELSE parts[1] \o <<"+">> \o Join(Tail(parts))

CMD == <<"c", "m", "d">>
ALT == <<"a", "l", "t">>
CTRL == <<"c", "t", "r", "l">>
SHIFT == <<"s", "h", "i", "f", "t">>

\* {"command": "cmd", "option": "alt", "control": "ctrl"}.get(part, part)
Synonym(part) ==
    CASE part = <<"c", "o", "m", "m", "a", "n", "d">> -> CMD
      [] part = <<"o", "p", "t", "i", "o", "n">> -> ALT
      [] part = <<"c", "o", "n", "t", "r", "o", "l">> -> CTRL
      [] OTHER -> part

Modifiers == {CMD, ALT, CTRL, SHIFT}

Range(f) == { f[i] : i \in DOMAIN f }

\* [p.strip().lower() for p in combo.split("+") if p.strip()]
ComboParts(str) ==
    LET NonBlank(p) == Strip(p) # <<>>
        kept == SelectSeq(Split(str), NonBlank)
    IN  [i \in 1..Len(kept) |-> Lower(Strip(kept[i]))]

\* The loop of normalize_combo_string over the parts: modifiers in the
\* order of their first occurrence, the key the last part that is none.
RECURSIVE ScanParts(_, _, _)
ScanParts(parts, mods, key) ==
    IF parts = <<>> THEN [mods |-> mods, key |-> key]
    ELSE LET part == Synonym(Head(parts))
         IN  IF part \in Modifiers
             THEN ScanParts(Tail(parts),
                            IF part \in Range(mods) THEN mods ELSE Append(mods, part), key)
             ELSE ScanParts(Tail(parts), mods, part)

\* normalize_combo_string
NormalizeComboString(str) ==
    LET parts == ComboParts(str)
    IN  IF parts = <<>> THEN <<>>
        ELSE LET r == ScanParts(parts, <<>>, <<>>)
             IN  IF r.key = <<>> THEN Join(r.mods) ELSE Join(Append(r.mods, r.key))

\* Mutation of parse_combo_string: the modifiers are kept as a list, in the
\* order written, not as a frozenset.
ParseComboString_ordered(str) ==
    LET norm == NormalizeComboString(str)
    IN  IF norm = <<>> THEN <<>>
        ELSE LET parts == Split(norm)
                 mods == SubSeq(parts, 1, Len(parts) - 1)
                 key == parts[Len(parts)]
             IN  IF key = <<>> THEN <<>> ELSE <<[mods |-> mods, key |-> key]>>

\* parse_combo_string: <<>> (None), or <<the modifier set and the key>>.
ParseComboString(str) ==
    LET norm == NormalizeComboString(str)
    IN  IF norm = <<>> THEN <<>>
        ELSE LET parts == Split(norm)
                 mods == { parts[i] : i \in { k \in 1..(Len(parts) - 1) : parts[k] # <<>> } }
                 key == parts[Len(parts)]
             IN  IF key = <<>> THEN <<>> ELSE <<[mods |-> mods, key |-> key]>>

\* What a combo string is typed from: the text of a part, and the modifier
\* or the key it stands for (<<>> for none).
RawParts ==
    { [text |-> <<"C", "t", "r", "l">>, mod |-> CTRL, key |-> <<>>],
      [text |-> <<"c", "o", "n", "t", "r", "o", "l">>, mod |-> CTRL, key |-> <<>>],
      [text |-> <<"a", "l", "t">>, mod |-> ALT, key |-> <<>>],
      [text |-> <<" ", "O", "p", "t", "i", "o", "n", " ">>, mod |-> ALT, key |-> <<>>],
      [text |-> <<"1">>, mod |-> <<>>, key |-> <<"1">>],
      [text |-> <<"A">>, mod |-> <<>>, key |-> <<"a">>],
      [text |-> <<" ">>, mod |-> <<>>, key |-> <<>>] }

PartSeqs == UNION { [1..n -> RawParts] : n \in 0..MaxParts }

\* The string typed from the parts.
Typed(ps) == Join([i \in 1..Len(ps) |-> ps[i].text])

\* The set of modifiers the parts name, and the key they name: the last one.
ModsNamed(ps) == { ps[i].mod : i \in { k \in 1..Len(ps) : ps[k].mod # <<>> } }

KeyNamed(ps) ==
    LET ks == { k \in 1..Len(ps) : ps[k].key # <<>> }
    IN  IF ks = {} THEN <<>> ELSE ps[CHOOSE k \in ks : \A j \in ks : j <= k].key

InitCombo ==
    /\ TrackerInit /\ session_id = 1
    /\ LogOff /\ AppOff /\ GateOff /\ KeysOff /\ ExtOff
    /\ combo_parts \in PartSeqs
    /\ combo = Typed(combo_parts)
    /\ combo_out = <<>>

\* The combo string is normalized and parsed.
ComboApply ==
    /\ combo_out = <<>>
    /\ combo_out' = <<[norm |-> NormalizeComboString(combo),
                       parsed |-> ParseComboString(combo)]>>
    /\ UNCHANGED <<combo_parts, combo>>

NextCombo == ComboApply /\ UNCHANGED nonCombo

SpecCombo == InitCombo /\ [][NextCombo]_vars

\* What a combo string names.
Named(ps) == [mods |-> ModsNamed(ps), key |-> KeyNamed(ps)]

\* Every combo string of the input set: what it names, with its results.
ComboTable ==
    { [named |-> Named(ps),
       norm |-> NormalizeComboString(Typed(ps)),
       parsed |-> ParseComboString(Typed(ps))] : ps \in PartSeqs }

\* C17: of two combo strings that each name a key, the parsed values are
\* equal exactly when the strings name the same set of modifiers, in
\* whatever order, letter case and spelling, and the same key.
C17_ParseOrderAndCaseInsensitive ==
    (combo_out # <<>> /\ KeyNamed(combo_parts) # <<>>) =>
        \A other \in ComboTable :
            other.named.key # <<>> =>
                ((combo_out[1].parsed = other.parsed) <=> (Named(combo_parts) = other.named))

\* " Option +Ctrl+A" parsed to the modifiers alt and ctrl and the key a.
C17_Witness ==
    /\ combo_out # <<>>
    /\ Len(combo_parts) = 3
    /\ combo_parts[1].mod = ALT /\ combo_parts[2].mod = CTRL
    /\ combo_parts[1].text # ALT /\ combo_parts[2].text # CTRL
    /\ combo_parts[3].key = <<"a">>
    /\ combo_out[1].parsed = <<[mods |-> {ALT, CTRL}, key |-> <<"a">>]>>

\* C18: a combo string that names no key (the empty string, blank parts
\* only, modifiers only) is parsed as invalid.
C18_ParseRejectsKeylessCombos ==
    (combo_out # <<>> /\ KeyNamed(combo_parts) = <<>>) => combo_out[1].parsed = <<>>

\* C20: two combo strings that name the same set of modifiers and the same
\* key normalize to the same string (checked for strings that name a key);
\* the key is the last token of the normalized string; a string that names
\* nothing normalizes to the empty string.
C20_NormalizeCanonical ==
    combo_out # <<>> =>
        /\ KeyNamed(combo_parts) # <<>> =>
              \A other \in ComboTable :
                  Named(combo_parts) = other.named => combo_out[1].norm = other.norm
        /\ KeyNamed(combo_parts) # <<>> =>
              LET toks == Split(combo_out[1].norm)
              IN  toks[Len(toks)] = KeyNamed(combo_parts)
        /\ (ModsNamed(combo_parts) = {} /\ KeyNamed(combo_parts) = <<>>) =>
              combo_out[1].norm = <<>>

-----------------------------------------------------------------------------
(***************************************************************************)
(* SpecKeys: the keyboard listener of HotkeyBackend.  A binding table is   *)
(* loaded at construction; key presses and releases arrive one at a time.  *)
(***************************************************************************)

\* The keys the listener is handed, pynput Key members by name and KeyCode
\* values by char: Key.ctrl_l and Key.alt, the modifier keys pressed here,
ModifierKeys ==
    { [kind |-> "Key", name |-> CTRL \o <<"_", "l">>], [kind |-> "Key", name |-> ALT] }

\* and with them the character keys "1" and "¡".
Keys ==
    ModifierKeys \cup { [kind |-> "KeyCode", name |-> <<"1">>],
                        [kind |-> "KeyCode", name |-> <<"¡">>] }

\* Mutation of _modifier_name: the alt keys are not recognised.
ModifierName_missesAlt(key) ==
    IF key.kind # "Key" THEN <<>>
    ELSE IF key.name \in {CMD, CMD \o <<"_", "l">>, CMD \o <<"_", "r">>} THEN CMD
    ELSE IF key.name \in {CTRL, CTRL \o <<"_", "l">>, CTRL \o <<"_", "r">>} THEN CTRL
    ELSE IF key.name \in {SHIFT, SHIFT \o <<"_", "l">>, SHIFT \o <<"_", "r">>} THEN SHIFT
    ELSE <<>>

\* _modifier_name: the modifier a key stands for, <<>> (None) for other keys.
ModifierName(key) ==
    IF key.kind # "Key" THEN <<>>
    ELSE IF key.name \in {CMD, CMD \o <<"_", "l">>, CMD \o <<"_", "r">>} THEN CMD
    ELSE IF key.name \in {ALT, ALT \o <<"_", "l">>, ALT \o <<"_", "r">>, ALT \o <<"_", "g", "r">>}
         THEN ALT
    ELSE IF key.name \in {CTRL, CTRL \o <<"_", "l">>, CTRL \o <<"_", "r">>} THEN CTRL
    ELSE IF key.name \in {SHIFT, SHIFT \o <<"_", "l">>, SHIFT \o <<"_", "r">>} THEN SHIFT
    ELSE <<>>

\* _symbol_to_digit, for the first of its five symbols.
SymbolToDigit(ch) == IF ch = <<"¡">> THEN <<"1">> ELSE <<>>

\* _digit_name: the digit of a KeyCode, <<>> (None) otherwise.
DigitName(key) ==
    IF key.kind # "KeyCode" THEN <<>>
    ELSE IF key.name \in {<<"1">>, <<"2">>, <<"3">>, <<"4">>, <<"5">>} THEN key.name
    ELSE SymbolToDigit(key.name)

\* _key_token: the digit, else the lowered char of a KeyCode, else the lowered
\* name of a Key.
KeyToken(key) == IF DigitName(key) # <<>> THEN DigitName(key) ELSE Lower(key.name)

\* The combo strings the settings may hold for an action.
KbCombos ==
    { <<>>, Join(<<CTRL, ALT>>), CTRL, Join(<<CTRL, <<"1">>>>), <<"1">> }

\* The actions given a combo here; keyboard_map.get(action, "") is "" for the rest.
KbActions == {"next_run", "undo_last"}

KeyboardMapGet(map, action) == IF action \in DOMAIN map THEN map[action] ELSE <<>>

\* _reload_parsed_bindings: in ACTION_ORDER, the actions whose combo parses,
\* each with its parsed combo.
ReloadParsedBindings(map) ==
    LET valid == SelectSeq(ACTION_ORDER,
                     LAMBDA a : ParseComboString(KeyboardMapGet(map, a)) # <<>>)
    IN  [i \in 1..Len(valid) |->
            LET p == ParseComboString(KeyboardMapGet(map, valid[i]))[1]
            IN  [action |-> valid[i], req_mods |-> p.mods, req_key |-> p.key]]

\* Mutation of the scan of _on_press: the table is scanned from its end.
Matching_reversed(bindings, token, mods) ==
    LET hits == SelectSeq(bindings, LAMBDA b : b.req_key = token /\ b.req_mods \subseteq mods)
    IN  [i \in 1..Len(hits) |-> hits[Len(hits) + 1 - i]]

\* The bindings a token matches with the modifiers held, in table order.
Matching(bindings, token, mods) ==
    SelectSeq(bindings, LAMBDA b : b.req_key = token /\ b.req_mods \subseteq mods)

\* Mutation of the test "token in self._fired_keys": never true.
AlreadyFired_never(token, fired) == FALSE

\* "token in self._fired_keys"
AlreadyFired(token, fired) == token \in fired

\* HotkeyBackend.__init__
InitKeys ==
    /\ TrackerInit /\ session_id = 1
    /\ LogOff /\ AppOff /\ GateOff /\ ComboOff /\ ExtOff
    /\ keyboard_map \in [KbActions -> KbCombos]
    /\ parsed_bindings = ReloadParsedBindings(keyboard_map)
    /\ pressed_mods = {} /\ fired_keys = {}
    /\ last_action_at = [a \in Actions |-> None]
    /\ kb_now = 0 /\ kb_events = 0 /\ kb_only_mods = TRUE /\ kb_emitted = <<>>
    /\ kb_last = <<>> /\ kb_held = {} /\ kb_kept = {} /\ kb_reload = NoReload

KeyEvent(kind, key) ==
    /\ kb_events < MaxKeyEvents
    /\ kb_events' = kb_events + 1
    /\ kb_last' = <<[kind |-> kind, key |-> key]>>
    /\ kb_only_mods' = (kb_only_mods /\ key \in ModifierKeys)
    /\ kb_reload' = [kb_reload EXCEPT !.used = TRUE]
    /\ UNCHANGED <<keyboard_map, parsed_bindings>>

\* _on_press, gap ms after the previous event
KeyPress ==
    \E key \in Keys, gap \in {0, HOTKEY_REPEAT_GUARD_MS} :
        /\ KeyEvent("press", key)
        /\ kb_now' = kb_now + gap
        /\ IF ModifierName(key) # <<>>
           THEN /\ pressed_mods' = pressed_mods \cup {ModifierName(key)}
                /\ UNCHANGED <<fired_keys, last_action_at, kb_emitted>>
           ELSE LET token == KeyToken(key)
                    hits == Matching(parsed_bindings, token, pressed_mods)
                IN  /\ UNCHANGED pressed_mods
                    /\ IF token = <<>> \/ AlreadyFired(token, fired_keys) \/ hits = <<>>
                       THEN UNCHANGED <<fired_keys, last_action_at, kb_emitted>>
                       ELSE LET action == hits[1].action
                                th == ShouldThrottle(last_action_at, HOTKEY_REPEAT_GUARD_MS,
                                                     action, kb_now')
                            IN  /\ last_action_at' = th.last
                                /\ fired_keys' = fired_keys \cup {token}
                                /\ kb_emitted' = IF th.ret THEN kb_emitted
                                                 ELSE Append(kb_emitted, action)
        /\ kb_held' = IF kb_emitted' # kb_emitted THEN kb_held \cup {KeyToken(key)} ELSE kb_held
        /\ kb_kept' = IF kb_emitted' # kb_emitted THEN kb_kept \cup {KeyToken(key)} ELSE kb_kept

\* _on_release
KeyRelease ==
    \E key \in Keys :
        /\ KeyEvent("release", key)
        /\ UNCHANGED <<kb_now, last_action_at, kb_emitted>>
        /\ IF ModifierName(key) # <<>>
           THEN /\ pressed_mods' = pressed_mods \ {ModifierName(key)}
                /\ fired_keys' = IF pressed_mods' = {} THEN {} ELSE fired_keys
                /\ kb_held' = kb_held
                /\ kb_kept' = IF pressed_mods' = {} THEN {} ELSE kb_kept
           ELSE /\ UNCHANGED pressed_mods
                /\ kb_held' = kb_held \ {KeyToken(key)}
                /\ kb_kept' = kb_kept \ {KeyToken(key)}
                /\ fired_keys' = IF KeyToken(key) # <<>> THEN fired_keys \ {KeyToken(key)}
                                 ELSE fired_keys

NextKeys ==
    \/ KeyPress /\ UNCHANGED nonKeys
    \/ KeyRelease /\ UNCHANGED nonKeys

SpecKeys == InitKeys /\ [][NextKeys]_vars

\* C19: whatever the binding table, modifiers-only combo strings included,
\* while every key event so far was the press or release of a modifier key
\* the keyboard source has passed no action to on_action.
C19_ModifiersAloneNeverFire ==
    kb_only_mods => kb_emitted = <<>>

\* C19's case: a table holding the modifiers-only string "ctrl+alt", both
\* modifiers pressed one after the other, and nothing emitted.
C19_Witness ==
    /\ kb_only_mods /\ kb_events >= 2
    /\ \E a \in KbActions : keyboard_map[a] = Join(<<CTRL, ALT>>)
    /\ pressed_mods = {CTRL, ALT}
    /\ kb_emitted = <<>>

\* The listener does fire: a bound chord pressed with its modifier emits.
KeysFire ==
    /\ kb_emitted # <<>> /\ pressed_mods = {CTRL}

\* The step is a key event of the given kind.
IsKeyEvent(kind) == kb_events' = kb_events + 1 /\ kb_last'[1].kind = kind

\* C25 as stated: from a press that emitted an action to the release of the
\* same key, no further press of that key emits an action, whatever modifier
\* events come in between.
C25_HeldKeyNeverRetriggers ==
    [][ (IsKeyEvent("press") /\ KeyToken(kb_last'[1].key) \in kb_held)
            => kb_emitted' = kb_emitted ]_vars

\* C25, amended: from a press that emitted an action to the release of the
\* same key, no further press of that key emits an action, as long as no
\* modifier release in between has left the set of held modifiers empty.
C25_HeldKeyNeverRetriggersWhileModsKept ==
    [][ (IsKeyEvent("press") /\ KeyToken(kb_last'[1].key) \in kb_kept)
            => /\ kb_emitted' = kb_emitted
               /\ fired_keys' = fired_keys
               /\ last_action_at' = last_action_at ]_vars

\* C25's case: "1" alone is bound; "1" and ctrl are pressed, then "1" comes
\* again a full guard after the previous event, without a release, and the
\* only action emitted is that of the first press.
C25_Witness ==
    /\ keyboard_map["next_run"] = <<"1">> /\ keyboard_map["undo_last"] = <<>>
    /\ kb_events = 3 /\ kb_now = 3 * HOTKEY_REPEAT_GUARD_MS
    /\ pressed_mods = {CTRL}
    /\ kb_last = <<[kind |-> "press", key |-> [kind |-> "KeyCode", name |-> <<"1">>]]>>
    /\ <<"1">> \in kb_kept
    /\ kb_emitted = <<"next_run">>

\* C26: on the press of a non-modifier key whose token is not marked fired,
\* the first action in ACTION_ORDER whose binding has the pressed token and
\* modifiers all held is selected; the press emits at most one action, emits
\* the selected one exactly when its own last attempt is absent or a guard
\* or more ago, stamps that action's attempt and marks the token fired;
\* with no such action the press changes nothing.
C26_FirstMatchInOrderDebouncedPerAction ==
    [][ (IsKeyEvent("press") /\ ModifierName(kb_last'[1].key) = <<>>
            /\ KeyToken(kb_last'[1].key) # <<>>
            /\ KeyToken(kb_last'[1].key) \notin fired_keys)
        => LET token == KeyToken(kb_last'[1].key)
               cands == { i \in 1..Len(ACTION_ORDER) :
                            \E j \in DOMAIN parsed_bindings :
                                /\ parsed_bindings[j].action = ACTION_ORDER[i]
                                /\ parsed_bindings[j].req_key = token
                                /\ parsed_bindings[j].req_mods \subseteq pressed_mods }
           IN  /\ Len(kb_emitted') <= Len(kb_emitted) + 1
               /\ IF cands = {}
                  THEN /\ kb_emitted' = kb_emitted
                       /\ fired_keys' = fired_keys
                       /\ last_action_at' = last_action_at
                  ELSE LET first == ACTION_ORDER[CHOOSE i \in cands : \A j \in cands : i <= j]
                           suppressed ==
                               /\ last_action_at[first] # None
                               /\ kb_now' - last_action_at[first] < HOTKEY_REPEAT_GUARD_MS
                       IN  /\ kb_emitted' = IF suppressed THEN kb_emitted
                                            ELSE Append(kb_emitted, first)
                           /\ fired_keys' = fired_keys \cup {token}
                           /\ last_action_at' = [last_action_at EXCEPT ![first] = kb_now']
      ]_vars

\* C26's case: next_run is bound to "1" and undo_last to "ctrl+1"; with ctrl
\* held, "1" is pressed: both bindings match and next_run, the earlier in
\* ACTION_ORDER, is the one emitted.
C26_Witness ==
    /\ keyboard_map["next_run"] = <<"1">>
    /\ keyboard_map["undo_last"] = Join(<<CTRL, <<"1">>>>)
    /\ kb_events = 2 /\ pressed_mods = {CTRL}
    /\ kb_last = <<[kind |-> "press", key |-> [kind |-> "KeyCode", name |-> <<"1">>]]>>
    /\ kb_emitted = <<"next_run">>
    /\ fired_keys = {<<"1">>}

-----------------------------------------------------------------------------
(***************************************************************************)
(* SpecReload: the listener of SpecKeys with reload_bindings called from   *)
(* the UI thread while it runs.  reload_bindings assigns keyboard_map and  *)
(* then, in _reload_parsed_bindings, builds a new table aside and assigns  *)
(* it to _parsed_bindings; a key event of the listener thread may fall     *)
(* before, between or after the two assignments.  _on_press reads          *)
(* _parsed_bindings once, so it scans the table of that instant.           *)
(***************************************************************************)

\* The maps the settings hand to reload_bindings.
ReloadMaps ==
    { [a \in KbActions |-> IF a = "next_run" THEN <<"1">> ELSE Join(<<CTRL, <<"1">>>>)],
      [a \in KbActions |-> IF a = "next_run" THEN Join(<<CTRL, <<"1">>>>) ELSE <<>>],
      [a \in KbActions |-> IF a = "next_run" THEN <<>> ELSE <<"1">>] }

InitReload ==
    /\ TrackerInit /\ session_id = 1
    /\ LogOff /\ AppOff /\ GateOff /\ ComboOff /\ PadOff /\ SetOff /\ LateOff
    /\ keyboard_map \in ReloadMaps
    /\ parsed_bindings = ReloadParsedBindings(keyboard_map)
    /\ pressed_mods = {} /\ fired_keys = {}
    /\ last_action_at = [a \in Actions |-> None]
    /\ kb_now = 0 /\ kb_events = 0 /\ kb_only_mods = TRUE /\ kb_emitted = <<>>
    /\ kb_last = <<>> /\ kb_held = {} /\ kb_kept = {}
    /\ kb_reload = NoReload

ReloadFrame ==
    UNCHANGED <<pressed_mods, fired_keys, last_action_at, kb_now, kb_events, kb_only_mods,
                kb_emitted, kb_last, kb_held, kb_kept>>

\* reload_bindings, up to "self.keyboard_map = dict(keyboard_map)"
ReloadAssignMap ==
    \E map \in ReloadMaps :
        /\ kb_reload.stage = "idle"
        /\ keyboard_map' = map
        /\ kb_reload' = [stage |-> "swapping", old |-> keyboard_map, used |-> FALSE]
        /\ UNCHANGED parsed_bindings
        /\ ReloadFrame

\* Mutation of _reload_parsed_bindings: the table in use is updated in place
\* and keeps the entries of the actions the new map leaves without a combo.
ReloadSwapTable_inPlace ==
    /\ kb_reload.stage = "swapping"
    /\ LET new == ReloadParsedBindings(keyboard_map)
           stale == SelectSeq(parsed_bindings,
                        LAMBDA b : \A j \in DOMAIN new : new[j].action # b.action)
       IN  parsed_bindings' = new \o stale
    /\ kb_reload' = [kb_reload EXCEPT !.stage = "idle", !.used = FALSE]
    /\ UNCHANGED keyboard_map
    /\ ReloadFrame

\* _reload_parsed_bindings, called by reload_bindings: the table built
\* aside replaces the one in use in one assignment; reload_bindings returns.
ReloadSwapTable ==
    /\ kb_reload.stage = "swapping"
    /\ parsed_bindings' = ReloadParsedBindings(keyboard_map)
    /\ kb_reload' = [kb_reload EXCEPT !.stage = "idle", !.used = FALSE]
    /\ UNCHANGED keyboard_map
    /\ ReloadFrame

NextReload ==
    \/ KeyPress /\ UNCHANGED nonKeys
    \/ KeyRelease /\ UNCHANGED nonKeys
    \/ ReloadAssignMap /\ UNCHANGED nonKeys
    \/ ReloadSwapTable /\ UNCHANGED nonKeys

SpecReload == InitReload /\ [][NextReload]_vars

\* tbl is the whole table of map: one entry for each action whose combo
\* parses, holding that combo, in ACTION_ORDER, and nothing else.
IsTableOf(tbl, map) ==
    /\ \A j \in DOMAIN tbl :
          LET p == ParseComboString(KeyboardMapGet(map, tbl[j].action))
          IN  /\ p # <<>>
              /\ tbl[j].req_mods = p[1].mods /\ tbl[j].req_key = p[1].key
    /\ \A a \in Actions :
          ParseComboString(KeyboardMapGet(map, a)) # <<>>
              => \E j \in DOMAIN tbl : tbl[j].action = a
    /\ \A i, j \in DOMAIN tbl :
          i < j => \E m, n \in DOMAIN ACTION_ORDER :
                      m < n /\ ACTION_ORDER[m] = tbl[i].action /\ ACTION_ORDER[n] = tbl[j].action

\* The map whose bindings a key event of this instant is matched against.
MapInForce == IF kb_reload.stage = "swapping" THEN kb_reload.old ELSE keyboard_map

\* The table in use is whole: that of the new map once reload_bindings has
\* returned, that of the replaced map between its two assignments.
TableIsWhole == IsTableOf(parsed_bindings, MapInForce)

\* A press emits only an action that the map in force binds to a combo with
\* the pressed token and held modifiers.
PressMatchesMapInForce ==
    [][ (IsKeyEvent("press") /\ kb_emitted' # kb_emitted)
        => LET a == kb_emitted'[Len(kb_emitted')]
               p == ParseComboString(KeyboardMapGet(MapInForce, a))
           IN  /\ p # <<>>
               /\ p[1].key = KeyToken(kb_last'[1].key)
               /\ p[1].mods \subseteq pressed_mods ]_vars

\* The reload leaves the listener as it is: held modifiers, fired flags,
\* debounce stamps and the actions emitted so far.
ReloadKeepsListener ==
    [][ kb_reload'.stage # kb_reload.stage
        => /\ pressed_mods' = pressed_mods /\ fired_keys' = fired_keys
           /\ last_action_at' = last_action_at /\ kb_emitted' = kb_emitted ]_vars

\* C27: reload_bindings replaces the table under the running listener; once
\* it has returned a press is matched against the new map only, a press
\* that falls between its two assignments is matched against the whole
\* replaced table, the table in use is never a mixture of the two, and the
\* listener's own state is not reset.
C27_ReloadSwapsWholeTable ==
    /\ []TableIsWhole
    /\ PressMatchesMapInForce
    /\ ReloadKeepsListener

\* C27's case: undo_last was bound to "1"; reload_bindings replaced the map
\* by one that binds only "ctrl+1" and returned; then "1" was pressed, the
\* first key event of the listener, and emitted nothing.
C27_Witness ==
    /\ kb_reload = [stage |-> "idle",
                    old |-> [a \in KbActions |-> IF a = "next_run" THEN <<>> ELSE <<"1">>],
                    used |-> TRUE]
    /\ keyboard_map = [a \in KbActions |-> IF a = "next_run" THEN Join(<<CTRL, <<"1">>>>) ELSE <<>>]
    /\ kb_events = 1
    /\ kb_last = <<[kind |-> "press", key |-> [kind |-> "KeyCode", name |-> <<"1">>]]>>
    /\ kb_emitted = <<>>

-----------------------------------------------------------------------------
(***************************************************************************)
(* SpecPad: the poll loop of ControllerBackend._run.  The device is        *)
(* connected and its D-pad sources were found at start; every tick reads   *)
(* what the device reports at that instant.  A native button mask is the   *)
(* set of its bits; an axis value is read in tenths.                       *)
(***************************************************************************)

PAD_TICK_MS == 10        \* time.sleep(0.01)
AXIS_THRESHOLD == 5      \* threshold = 0.5, in tenths

Directions == {"up", "right", "down", "left"}

\* dpad_map of default_controller_config_data
DefaultDpadMap ==
    [d \in Directions |->
        CASE d = "up" -> "toggle_start_stop" [] d = "right" -> "next_run"
          [] d = "down" -> "reset_timer" [] d = "left" -> "reset_session"]

\* The sources found at start and the configured guard.
PadSetups ==
    { [xinput |-> x, hat |-> TRUE, axes |-> TRUE, buttons |-> b, guard |-> g,
       dpad_map |-> DefaultDpadMap] :
        x \in BOOLEAN, b \in BOOLEAN, g \in {0, CONTROLLER_REPEAT_GUARD_MS} }
    \cup
    { [xinput |-> FALSE, hat |-> FALSE, axes |-> FALSE, buttons |-> TRUE, guard |-> g,
       dpad_map |-> [DefaultDpadMap EXCEPT !["down"] = "none"]] :
        g \in {0, CONTROLLER_REPEAT_GUARD_MS} }

\* What a device with these sources can report; a source that is absent
\* reports nothing.
PadReadings(cfg) ==
    [xinput : IF cfg.xinput THEN {{}, {2, 8}} ELSE {{}},
     hat : IF cfg.hat THEN {<<0, 0>>, <<0, 1>>, <<1, 1>>} ELSE {<<0, 0>>},
     axes : IF cfg.axes THEN {<<0, 0>>, <<0, -10>>, <<0, -5>>} ELSE {<<0, 0>>},
     buttons : IF cfg.buttons THEN {{}, {12}, {11, 12}} ELSE {{}}]

Neutral == [xinput |-> {}, hat |-> <<0, 0>>, axes |-> <<0, 0>>, buttons |-> {}]

\* dpad_masks of _poll_xinput_dpad, in the order they are tested
DpadMasks ==
    << [mask |-> 1, name |-> "up"], [mask |-> 8, name |-> "right"],
       [mask |-> 2, name |-> "down"], [mask |-> 4, name |-> "left"] >>

\* _poll_xinput_dpad: the first mask newly set; [direction, prev_buttons]
PollXinputDpad(buttons, prev_buttons) ==
    LET newly_pressed == buttons \ (IF prev_buttons = <<>> THEN {} ELSE prev_buttons[1])
        hits == SelectSeq(DpadMasks, LAMBDA m : m.mask \in newly_pressed)
    IN  [direction |-> IF hits = <<>> THEN <<>> ELSE <<hits[1].name>>,
         prev |-> <<buttons>>]

\* _direction_from_hat
DirectionFromHat(value) ==
    CASE value = <<0, 1>> -> <<"up">> [] value = <<1, 0>> -> <<"right">>
      [] value = <<0, -1>> -> <<"down">> [] value = <<-1, 0>> -> <<"left">>
      [] OTHER -> <<>>

Quantize(x) == IF x < -AXIS_THRESHOLD THEN -1 ELSE IF x > AXIS_THRESHOLD THEN 1 ELSE 0

\* _poll_axes_dpad
PollAxesDpad(axes) ==
    LET q == <<Quantize(axes[1]), Quantize(axes[2])>>
    IN  CASE q = <<0, -1>> -> <<"up">> [] q = <<1, 0>> -> <<"right">>
          [] q = <<0, 1>> -> <<"down">> [] q = <<-1, 0>> -> <<"left">>
          [] OTHER -> <<>>

\* _guess_dpad_button_map, for a device of 15 buttons or more
DpadButtonMap ==
    [i \in {11, 12, 13, 14} |->
        CASE i = 11 -> "up" [] i = 12 -> "down" [] i = 13 -> "left" [] i = 14 -> "right"]

Lowest(S) == CHOOSE i \in S : \A j \in S : i <= j

\* Mutation of _poll_buttons_dpad: a held button is reported again.
PollButtonsDpad_held(down, prev_pressed) ==
    LET pressed_now == down \cap DOMAIN DpadButtonMap
    IN  [direction |-> IF pressed_now = {} THEN <<>>
                       ELSE <<DpadButtonMap[Lowest(pressed_now)]>>,
         prev |-> pressed_now]

\* _poll_buttons_dpad: [direction, pressed_now]
PollButtonsDpad(down, prev_pressed) ==
    LET pressed_now == down \cap DOMAIN DpadButtonMap
        newly_pressed == pressed_now \ prev_pressed
    IN  [direction |-> IF newly_pressed = {} THEN <<>>
                       ELSE <<DpadButtonMap[Lowest(newly_pressed)]>>,
         prev |-> pressed_now]

\* Mutation of the test "direction is None": every source is polled.
Unresolved_always(direction) == TRUE

\* "direction is None", the test in front of the hat, the axes and the buttons
Unresolved(direction) == direction = <<>>

\* One pass of the loop body up to the resolved direction: the sources polled,
\* the direction, and the new values of the prev_* locals.
Resolve(raw) ==
    LET x == PollXinputDpad(raw.xinput, prev_xinput_buttons)
        d1 == IF pad_cfg.xinput THEN x.direction ELSE <<>>
        pollHat == Unresolved(d1) /\ pad_cfg.hat
        hatMoved == pollHat /\ <<raw.hat>> # prev_hat_value
        d2 == IF hatMoved THEN DirectionFromHat(raw.hat) ELSE d1
        pollAxes == Unresolved(d2) /\ pad_cfg.axes
        axes_direction == PollAxesDpad(raw.axes)
        axesMoved == pollAxes /\ axes_direction # prev_axes_direction
        d3 == IF axesMoved THEN axes_direction ELSE d2
        pollButtons == Unresolved(d3) /\ pad_cfg.buttons
        b == PollButtonsDpad(raw.buttons, prev_buttons_pressed)
        d4 == IF pollButtons THEN b.direction ELSE d3
    IN  [polled |-> (IF pad_cfg.xinput THEN <<"xinput">> ELSE <<>>)
                    \o (IF pollHat THEN <<"hat">> ELSE <<>>)
                    \o (IF pollAxes THEN <<"axes">> ELSE <<>>)
                    \o (IF pollButtons THEN <<"buttons">> ELSE <<>>),
         direction |-> d4,
         prev_xinput_buttons |-> IF pad_cfg.xinput THEN x.prev ELSE prev_xinput_buttons,
         prev_hat_value |-> IF hatMoved THEN <<raw.hat>> ELSE prev_hat_value,
         prev_axes_direction |-> IF axesMoved THEN axes_direction ELSE prev_axes_direction,
         prev_buttons_pressed |-> IF pollButtons THEN b.prev ELSE prev_buttons_pressed]

\* ControllerBackend.__init__ and _run up to the loop
InitPad ==
    /\ TrackerInit /\ session_id = 1
    /\ LogOff /\ AppOff /\ GateOff /\ ComboOff /\ KeysOff /\ SetOff /\ LateOff
    /\ pad_cfg \in PadSetups
    /\ pad_raw = Neutral
    /\ prev_xinput_buttons = <<>> /\ prev_hat_value = <<>> /\ prev_axes_direction = <<>>
    /\ prev_buttons_pressed = {}
    /\ last_fired_at = [d \in Directions |-> None]
    /\ pad_now = 0
    /\ pad_tick = NoTick

\* Mutation: _should_throttle is called before the test for "none", so an
\* ignored direction is stamped too.
PadTickWith_stampsIgnored(raw) ==
    /\ pad_tick.n < MaxTicks
    /\ pad_raw' = raw
    /\ LET r == Resolve(raw)
           action == IF r.direction = <<>> THEN "none" ELSE pad_cfg.dpad_map[r.direction[1]]
           th == ShouldThrottle(last_fired_at, Max(pad_cfg.guard, 0), r.direction[1], pad_now)
       IN  /\ prev_xinput_buttons' = r.prev_xinput_buttons
           /\ prev_hat_value' = r.prev_hat_value
           /\ prev_axes_direction' = r.prev_axes_direction
           /\ prev_buttons_pressed' = r.prev_buttons_pressed
           /\ last_fired_at' = IF r.direction = <<>> THEN last_fired_at ELSE th.last
           /\ pad_tick' = [n |-> pad_tick.n + 1, same |-> (pad_tick.n > 0 /\ raw = pad_raw),
                           polled |-> r.polled,
                           direction |-> r.direction,
                           emitted |-> IF action = "none" \/ th.ret THEN <<>>
                                       ELSE <<action>>]
    /\ pad_now' = pad_now + PAD_TICK_MS
    /\ UNCHANGED pad_cfg

\* One iteration of the while loop of _run, the device reporting raw.
PadTickWith(raw) ==
    /\ pad_tick.n < MaxTicks
    /\ pad_raw' = raw
    /\ LET r == Resolve(raw)
           action == IF r.direction = <<>> THEN "none" ELSE pad_cfg.dpad_map[r.direction[1]]
           th == ShouldThrottle(last_fired_at, Max(pad_cfg.guard, 0), r.direction[1], pad_now)
       IN  /\ prev_xinput_buttons' = r.prev_xinput_buttons
           /\ prev_hat_value' = r.prev_hat_value
           /\ prev_axes_direction' = r.prev_axes_direction
           /\ prev_buttons_pressed' = r.prev_buttons_pressed
           /\ last_fired_at' = IF action = "none" THEN last_fired_at ELSE th.last
           /\ pad_tick' = [n |-> pad_tick.n + 1, same |-> (pad_tick.n > 0 /\ raw = pad_raw),
                           polled |-> r.polled,
                           direction |-> r.direction,
                           emitted |-> IF action = "none" \/ th.ret THEN <<>>
                                       ELSE <<action>>]
    /\ pad_now' = pad_now + PAD_TICK_MS
    /\ UNCHANGED pad_cfg

PadTick == \E raw \in PadReadings(pad_cfg) : PadTickWith(raw)

NextPad == PadTick /\ UNCHANGED nonPad

SpecPad == InitPad /\ [][NextPad]_vars

\* The source that supplied the direction of the latest tick: the last polled.
Supplier(tick) == IF tick.direction = <<>> THEN "" ELSE tick.polled[Len(tick.polled)]

\* C21: the hat reports (0,1) and the axis pair quantizes to (0,-1) for one
\* press; the hat supplied "up" for it; while the press is held unchanged in
\* the next tick, no second "up" is produced.
C21_HatWinsOneUpPerPress ==
    [][(/\ pad_raw.hat = <<0, 1>> /\ PollAxesDpad(pad_raw.axes) = <<"up">>
        /\ pad_tick.direction = <<"up">> /\ Supplier(pad_tick) = "hat"
        /\ pad_raw' = pad_raw)
       => pad_tick'.direction # <<"up">>]_vars

\* The D-pad sources of a configuration, in the priority of the loop.
Present(cfg) ==
    (IF cfg.xinput THEN <<"xinput">> ELSE <<>>) \o (IF cfg.hat THEN <<"hat">> ELSE <<>>)
    \o (IF cfg.axes THEN <<"axes">> ELSE <<>>) \o (IF cfg.buttons THEN <<"buttons">> ELSE <<>>)

\* What a source reports when it is polled with the device reporting raw: a
\* direction, or <<>> for none.
Reports(source, raw) ==
    CASE source = "xinput" -> PollXinputDpad(raw.xinput, prev_xinput_buttons).direction
      [] source = "hat" ->
            IF <<raw.hat>> # prev_hat_value THEN DirectionFromHat(raw.hat) ELSE <<>>
      [] source = "axes" ->
            IF PollAxesDpad(raw.axes) # prev_axes_direction THEN PollAxesDpad(raw.axes)
            ELSE <<>>
      [] source = "buttons" -> PollButtonsDpad(raw.buttons, prev_buttons_pressed).direction

\* C28: in every tick the sources are polled in the order native fallback,
\* hat, axis pair, buttons, up to and including the first that reports a
\* direction and no further; that direction is the tick's direction; at most
\* one action is emitted.
C28_PriorityFirstDefiniteSource ==
    [][pad_tick'.n = pad_tick.n + 1 =>
          LET t == pad_tick'
              present == Present(pad_cfg)
              k == Len(t.polled)
          IN  /\ k >= 1 /\ t.polled = SubSeq(present, 1, k)
              /\ \A i \in 1..(k - 1) : Reports(t.polled[i], pad_raw') = <<>>
              /\ t.direction = Reports(t.polled[k], pad_raw')
              /\ k < Len(present) => t.direction # <<>>
              /\ Len(t.emitted) <= 1
              /\ t.direction = <<>> => t.emitted = <<>>]_vars

\* C28's case: all four sources present; the native fallback reports nothing,
\* the hat reports "up" and is the last source polled although the axis pair
\* and the buttons are deflected too; one action is emitted.
C28_Witness ==
    /\ Present(pad_cfg) = <<"xinput", "hat", "axes", "buttons">>
    /\ pad_tick.polled = <<"xinput", "hat">> /\ pad_tick.direction = <<"up">>
    /\ PollAxesDpad(pad_raw.axes) = <<"up">> /\ pad_raw.buttons # {}
    /\ pad_tick.emitted = <<"toggle_start_stop">>

\* C29: in a tick in which the device reports exactly what it reported in the
\* tick before, no direction is produced.
C29_EdgeTriggered ==
    pad_tick.same => pad_tick.direction = <<>>

C31_NoneIgnoredElseDebouncedByDirection ==
    [][ pad_tick'.direction # <<>> =>
          LET d == pad_tick'.direction[1]
              action == pad_cfg.dpad_map[d]
              suppressed == /\ last_fired_at[d] # None
                            /\ pad_now - last_fired_at[d] < Max(pad_cfg.guard, 0)
          IN  IF action = "none"
              THEN /\ pad_tick'.emitted = <<>>
                   /\ last_fired_at' = last_fired_at
              ELSE /\ last_fired_at' = [last_fired_at EXCEPT ![d] = pad_now]
                   /\ pad_tick'.emitted = IF suppressed THEN <<>> ELSE <<action>> ]_vars

\* The third tick resolves "down", mapped to "none", under a positive guard
\* for the second time: it has no last-fired time, while "up", which fired
\* in between, has one.
C31_Witness ==
    /\ pad_tick.n = MaxTicks /\ pad_tick.direction = <<"down">>
    /\ pad_cfg.dpad_map["down"] = "none" /\ pad_cfg.guard > 0
    /\ pad_tick.emitted = <<>>
    /\ last_fired_at["down"] = None /\ last_fired_at["up"] # None

-----------------------------------------------------------------------------
(***************************************************************************)
(* SpecSet: the Save button of the settings dialog.  The dialog has a row  *)
(* for each action; the rows of next_run and undo_last are filled in, the  *)
(* other rows are left empty ("" and "none").                              *)
(***************************************************************************)

Digits == <<"0", "1", "2", "3", "4", "5", "6", "7", "8", "9">>

DigitValue(c) == (CHOOSE i \in 1..10 : Digits[i] = c) - 1

RECURSIVE DigitsValue(_)
DigitsValue(str) ==
    IF str = <<>> THEN 0
    ELSE 10 * DigitsValue(SubSeq(str, 1, Len(str) - 1)) + DigitValue(str[Len(str)])

\* int(text): <<>> for ValueError, else <<the number>>; a literal is an
\* optional sign and decimal digits, white space around it is dropped.
ParseInt(text) ==
    LET t == Strip(text)
        neg == t # <<>> /\ Head(t) = "-"
        ds == IF neg THEN Tail(t) ELSE t
    IN  IF ds = <<>> \/ \E i \in 1..Len(ds) : \A k \in 1..10 : Digits[k] # ds[i]
        THEN <<>>
        ELSE <<IF neg THEN 0 - DigitsValue(ds) ELSE DigitsValue(ds)>>

\* int(var.get().strip() or default)
IntField(text, default) == IF Strip(text) = <<>> THEN <<default>> ELSE ParseInt(text)

\* _find_duplicate_bindings: the combos given to more than one action
FindDuplicateBindings(kmap) ==
    { kmap[a] : a \in { x \in DOMAIN kmap :
                          kmap[x] # <<>> /\ \E y \in DOMAIN kmap : y # x /\ kmap[y] = kmap[x] } }

\* _find_duplicate_dpad: the directions chosen for more than one action
FindDuplicateDpad(selected_dirs) ==
    { selected_dirs[a] : a \in { x \in DOMAIN selected_dirs :
                          /\ selected_dirs[x] # "none"
                          /\ \E y \in DOMAIN selected_dirs :
                                y # x /\ selected_dirs[y] = selected_dirs[x] } }

\* save_controller_config: the payload written
SaveControllerConfig(config) ==
    [repeat_guard_ms |-> config.repeat_guard_ms,
     keyboard_map |-> [a \in KbActions |-> KeyboardMapGet(config.keyboard_map, a)],
     dpad_map |-> [d \in Directions |-> config.dpad_map[d]]]

\* load_controller_config: a direction whose action is not valid gets "none"
LoadControllerConfig(raw) ==
    [repeat_guard_ms |-> raw.repeat_guard_ms,
     keyboard_map |-> [a \in KbActions |-> raw.keyboard_map[a]],
     dpad_map |-> [d \in Directions |->
                     IF raw.dpad_map[d] \in Actions \cup {"none"} THEN raw.dpad_map[d]
                     ELSE "none"]]

\* The texts a numeric field may hold, each with the integer it denotes.
NumberTexts ==
    { [text |-> <<" ", "2", "0", " ">>, int |-> <<20>>], [text |-> <<>>, int |-> <<>>],
      [text |-> <<"1", ".", "5">>, int |-> <<>>] }

\* The combos a keyboard field may hold, as the parts they are typed from.
FormCombos ==
    LET part(t) == CHOOSE r \in RawParts : r.text = t
        ctrl == part(<<"C", "t", "r", "l">>)
        alt == part(<<"a", "l", "t">>)
        one == part(<<"1">>)
    IN  { <<>>, <<ctrl, alt, one>>, <<alt, ctrl, one>>, <<ctrl, alt>>, <<one>> }

\* The forms Save is pressed on.
Forms ==
    [keyboard : [KbActions -> FormCombos],
     dpad : [KbActions -> {"none", "up"}],
     guard : NumberTexts]

\* load_controller_config on a missing file: default_controller_config_data
DefaultConfigData ==
    [repeat_guard_ms |-> CONTROLLER_REPEAT_GUARD_MS,
     keyboard_map |-> [a \in KbActions |->
                         IF a = "next_run" THEN Join(<<CTRL, ALT, <<"2">>>>)
                         ELSE Join(<<CTRL, ALT, <<"5">>>>)],
     dpad_map |-> DefaultDpadMap]

\* D2RunnerApp.__init__: the config is loaded and handed to both backends
InitSet ==
    /\ TrackerInit /\ session_id = 1
    /\ LogOff /\ AppOff /\ GateOff /\ ComboOff /\ PadOff /\ LateOff
    /\ set_form = <<>> /\ set_saves = 0 /\ set_status = ""
    /\ cfg_file = DefaultConfigData
    /\ controller_config = LoadControllerConfig(cfg_file)
    /\ keyboard_map = controller_config.keyboard_map
    /\ parsed_bindings = ReloadParsedBindings(keyboard_map)
    /\ pressed_mods = {} /\ fired_keys = {} /\ last_action_at = <<>>
    /\ kb_now = 0 /\ kb_events = 0 /\ kb_only_mods = TRUE /\ kb_emitted = <<>>
    /\ kb_last = <<>> /\ kb_held = {} /\ kb_kept = {} /\ kb_reload = NoReload

\* _save_and_close
SaveAndClose(form) ==
    LET kmap == [a \in KbActions |-> NormalizeComboString(Typed(form.keyboard[a]))]
        guard == IntField(form.guard.text, CONTROLLER_REPEAT_GUARD_MS)
        dpad_map == [d \in Directions |->
                        IF \E a \in KbActions : form.dpad[a] = d
                        THEN CHOOSE a \in KbActions : form.dpad[a] = d
                        ELSE "none"]
    IN  /\ set_saves < MaxSaves
        /\ set_saves' = set_saves + 1
        /\ set_form' = <<form>>
        /\ IF \/ FindDuplicateBindings(kmap) # {}
              \/ FindDuplicateDpad(form.dpad) # {}
              \/ guard = <<>>
           THEN /\ set_status' = "Settings save failed"
                /\ UNCHANGED <<cfg_file, controller_config, keyboard_map, parsed_bindings>>
           ELSE /\ cfg_file' = SaveControllerConfig(
                                  [repeat_guard_ms |-> guard[1], keyboard_map |-> kmap,
                                   dpad_map |-> dpad_map])
                /\ controller_config' = LoadControllerConfig(cfg_file')
                /\ keyboard_map' = controller_config'.keyboard_map
                /\ parsed_bindings' = ReloadParsedBindings(keyboard_map')
                /\ set_status' = "Controller settings saved and reloaded."

Save == \E form \in Forms : SaveAndClose(form)

NextSet == Save /\ UNCHANGED nonSet

SpecSet == InitSet /\ [][NextSet]_vars

\* The configuration errors of a form: two actions given the same modifiers
\* and key, a combo that names modifiers but no key, one direction chosen for
\* two actions, a numeric field that holds text but no integer.
SameCombination(form) ==
    \E a, b \in KbActions :
        /\ a # b /\ KeyNamed(form.keyboard[a]) # <<>>
        /\ Named(form.keyboard[a]) = Named(form.keyboard[b])

InvalidCombo(form) ==
    \E a \in KbActions :
        KeyNamed(form.keyboard[a]) = <<>> /\ ModsNamed(form.keyboard[a]) # {}

SameDirection(form) == form.dpad["next_run"] = "up" /\ form.dpad["undo_last"] = "up"

NonInteger(form) == form.guard.text # <<>> /\ form.guard.int = <<>>

\* C22: a Save on a form with a configuration error is refused with a
\* message, and the config file, the keyboard binding table and the
\* controller configuration stay as they were.
C22_BadSaveRejectedStateKept ==
    [][(/\ set_form' # <<>>
        /\ LET form == set_form'[1]
           IN  SameCombination(form) \/ InvalidCombo(form) \/ SameDirection(form)
               \/ NonInteger(form))
       => /\ set_status' = "Settings save failed"
          /\ UNCHANGED <<cfg_file, controller_config, keyboard_map, parsed_bindings>>]_vars

-----------------------------------------------------------------------------
(***************************************************************************)
(* SpecFail: the tracker with a log file whose open may fail.  next_run    *)
(* and undo_last_run do not catch the OSError of the logger: the call ends *)
(* where the logger raised.  A failure that leaves a half-written file is  *)
(* not modelled.                                                           *)
(***************************************************************************)

\* next_run in which logger.append raises: stop() has run, nothing after the
\* append has.  counted is FALSE in the code.
NextRunRaises(counted) ==
    /\ started_at_dt # None
    /\ SetTm(StopOf(Tm, now))
    /\ last' = Call("next_run", "error")
    /\ run_number' = IF counted THEN run_number + 1 ELSE run_number
    /\ saved_runs_count' = IF counted THEN saved_runs_count + 1 ELSE saved_runs_count
    /\ UNCHANGED <<now, session_id, last_record, header, rows, history>>

\* Mutation: the counters are advanced before the append.
NextRunAppendFails_counted == NextRunRaises(TRUE)

NextRunAppendFails == NextRunRaises(FALSE)

\* undo_last_run in which logger.undo_last_for_session raises
UndoLastFails ==
    /\ ~UndoBlocked(Tm, now)
    /\ last' = Call("undo_last", "error")
    /\ UNCHANGED <<now, tracker, header, rows, history>>

NextFail ==
    \/ Tick /\ UNCHANGED nonCore
    \/ ToggleStartStop /\ UNCHANGED nonCore
    \/ NextRun /\ UNCHANGED nonCore
    \/ ResetTimer /\ UNCHANGED nonCore
    \/ ResetSession /\ UNCHANGED nonCore
    \/ UndoLast /\ UNCHANGED nonCore
    \/ NextRunAppendFails /\ UNCHANGED nonCore
    \/ UndoLastFails /\ UNCHANGED nonCore

SpecFail == Init /\ [][NextFail]_vars

\* A call in which the log raised ends as a failure of that call; it leaves
\* the run number, the count of saved runs, the last record and the log as
\* they were (nothing is appended or removed by a second attempt).
FailedLogCallCountsNothing ==
    [][last'.res = "error" =>
          /\ last'.op \in {"next_run", "undo_last"}
          /\ run_number' = run_number /\ saved_runs_count' = saved_runs_count
          /\ last_record' = last_record
          /\ rows' = rows /\ header' = header]_vars

\* The tracker after a failure: every operation can be called; next_run
\* within the rows and the clock the model allows.
TrackerStillAccepts ==
    last.res = "error" =>
        /\ ENABLED ToggleStartStop /\ ENABLED ResetTimer /\ ENABLED ResetSession
        /\ ENABLED UndoLast
        /\ (Len(rows) < MaxRows /\ now < MaxTime) => ENABLED NextRun

\* C23: a next_run or undo_last_run in which the log raises an I/O error
\* fails, once, without counting a run or changing the log, and the tracker
\* accepts every operation afterwards.
C23_LogFailureSurfacedNotCounted ==
    FailedLogCallCountsNothing /\ []TrackerStillAccepts

\* C23's case: the append of a running tracker's run failed after an earlier
\* run was saved: the tracker is stopped with the run's time kept, and the
\* counters are those of the one saved run.
C23_Witness ==
    /\ last = Call("next_run", "error")
    /\ ~running /\ started_at_dt # None /\ elapsed_ms_accumulated > 0
    /\ saved_runs_count = 1 /\ run_number = 2 /\ Len(rows) = 1

\* A run is being timed.
Running == running /\ started_monotonic # None /\ started_at_dt # None

\* A run was started and is stopped, its time kept.
Paused == ~running /\ started_monotonic = None /\ started_at_dt # None

\* C35: in every state the tracker is running exactly when a start instant
\* is set, a running tracker has its start timestamp set, and accumulated
\* time other than zero comes with a start timestamp; so the tracker is in
\* exactly one of Idle, Running and Paused, and the guard of undo_last_run
\* blocks exactly when the start timestamp is set.
C35_TimerStateConsistent ==
    /\ running <=> started_monotonic # None
    /\ running => started_at_dt # None
    /\ elapsed_ms_accumulated # 0 => started_at_dt # None
    /\ \/ Idle /\ ~Running /\ ~Paused
       \/ ~Idle /\ Running /\ ~Paused
       \/ ~Idle /\ ~Running /\ Paused
    /\ UndoBlocked(Tm, now) <=> started_at_dt # None

\* C35's case: a run was started, timed for a while and stopped: the tracker
\* is paused with time accumulated.
C35_Witness ==
    /\ last = Call("toggle_start_stop", "stopped")
    /\ Paused /\ elapsed_ms_accumulated > 0

-----------------------------------------------------------------------------
(***************************************************************************)
(* SpecDisp: the dispatcher alone.  Every handle_action call runs in the   *)
(* UI thread, so the tracker and the files see one sequence of calls; the  *)
(* source of a call is only logged.                                        *)
(***************************************************************************)

\* The sources handle_action is called for.
Sources == {"button", "global_hotkey", "controller"}

\* handle_action(action, source)
Dispatch ==
    \E src \in Sources, a \in Actions :
        /\ handled.n < MaxDispatch
        /\ HandleAction(a)
        /\ handled' = Handled(src, "ui", a)
        /\ UNCHANGED <<queue, draining, enqueued, applied>>

NextDisp == Dispatch /\ UNCHANGED nonApp

SpecDisp == InitApp /\ [][NextDisp]_vars

\* The rows of the current log that carry the current session id.
OwnRows == SelectSeq(rows, LAMBDA r : r.session_id = session_id)

\* C36: after any sequence of dispatched actions the run number is one more
\* than the count of saved runs, the tracker's log is the current session
\* file, and its rows of the current session are numbered 1, 2, ... up to
\* the count of saved runs, in file order.
C36_RunNumbersContiguous ==
    /\ run_number = saved_runs_count + 1
    /\ files[logger_path] = LiveFile /\ current_csv_path = logger_path
    /\ Len(OwnRows) = saved_runs_count
    /\ \A i \in 1..Len(OwnRows) : OwnRows[i].run_number = i

\* C36's case: in the second session file a run was saved and a second one
\* started; the timer was reset and the saved row was undone.
C36_Witness ==
    /\ last = Call("undo_last", "ok")
    /\ handled.action = "undo_last" /\ handled.n = MaxDispatch
    /\ Len(files) = 2 /\ logger_path = 2
    /\ rows = <<>> /\ run_number = 1 /\ saved_runs_count = 0

\* The count of saved runs stays within the limit, and at the limit the
\* tracker is idle.
WithinRunLimit ==
    /\ saved_runs_count <= SESSION_RUN_LIMIT
    /\ RunLimitReached => Idle

\* At the limit a dispatched action other than reset_session changes
\* neither the tracker nor any file; reset_session is applied.
OnlyResetSessionAtLimit ==
    [][ (HandleStep /\ RunLimitReached)
        => IF handled'.action = "reset_session"
           THEN /\ saved_runs_count' = 0 /\ run_number' = 1
                /\ last' = Call("reset_session", "")
                /\ logger_path' = Len(files) + 1 /\ rows' = <<>>
           ELSE UNCHANGED <<now, tracker, header, rows, last, files, logger_path,
                            current_csv_path>> ]_vars

\* C37: through the dispatcher the count of saved runs never exceeds
\* SESSION_RUN_LIMIT; once it is at the limit the tracker is not running,
\* toggle_start_stop, next_run, reset_timer and undo_last of any source
\* change neither the tracker nor the log, and reset_session is applied.
C37_RunLimitBlocks ==
    []WithinRunLimit /\ OnlyResetSessionAtLimit

\* C37's case: the limit was reached and a next_run of the controller was
\* rejected: the rows and the counters are those of the limit.
C37_Witness ==
    /\ saved_runs_count = SESSION_RUN_LIMIT /\ Len(rows) = SESSION_RUN_LIMIT
    /\ handled.action = "next_run" /\ handled.source = "controller"
    /\ handled.n = SESSION_RUN_LIMIT + 2
    /\ last = Call("next_run", "saved_limit_reached")
    /\ ~running

-----------------------------------------------------------------------------
(***************************************************************************)
(* SpecCtl: the life of ControllerBackend.  start, stop and reload are     *)
(* called from the UI thread, in any order; every start() of an enabled    *)
(* backend creates a thread that runs _run: it opens the device, then      *)
(* polls until it sees the stop event set.  config, available and _stop    *)
(* are attributes of the backend, read and written by every thread.  The   *)
(* resolution of a direction from the device's sources is that of SpecPad  *)
(* and the repeat guard that of SpecGate; here an iteration of the loop    *)
(* reads a direction, or a read of a source fails, and the guard lets the  *)
(* direction through or not.  join(timeout=1.0) returns when its thread    *)
(* has ended, or at the timeout when the thread has not.                   *)
(***************************************************************************)

\* The configs the backend is constructed and reloaded with.
CtlConfigs ==
    { [enabled |-> TRUE, dpad_map |-> DefaultDpadMap],
      [enabled |-> TRUE, dpad_map |-> [DefaultDpadMap EXCEPT !["up"] = "undo_last"]],
      [enabled |-> FALSE, dpad_map |-> DefaultDpadMap] }

\* What one iteration reads off the device: a direction or none, or a read
\* of the hat, of an axis or of a button that raises.
CtlReads ==
    { [fail |-> "none", direction |-> d] : d \in {<<>>, <<"up">>} }
    \cup { [fail |-> f, direction |-> <<>>] : f \in {"hat", "axes", "buttons"} }

\* __init__
InitCtl ==
    /\ TrackerInit /\ session_id = 1
    /\ LogOff /\ AppOff /\ GateOff /\ ComboOff /\ KeysOff /\ PadOff /\ SetOff
    /\ tick_armed = FALSE
    /\ ctl_config \in CtlConfigs
    /\ ctl_available = FALSE /\ ctl_thread = 0 /\ ctl_stop = FALSE
    /\ ctl_threads = <<>> /\ ctl_ui = UiIdle /\ ctl_tick = NoLoop

\* start() with this config: [the threads, the stop event, _thread] after it.
StartedWith(cfg, threads, stop, thread) ==
    IF ~cfg.enabled
    THEN [threads |-> threads, stop |-> stop, thread |-> thread]
    ELSE [threads |-> Append(threads, [stage |-> "starting", cfg |-> cfg]),
          stop |-> FALSE, thread |-> Len(threads) + 1]

\* The model creates a bounded number of threads.
CanStart(cfg) == cfg.enabled => Len(ctl_threads) < MaxThreads

\* The dispatch context after a call returned; join tells how its join
\* ended: "" (no thread to join), "ended" or "timeout".
Returned(op, join) == [op |-> "idle", cfg |-> <<>>, last |-> op, join |-> join]

\* The dispatch context inside the join of a call.
Joining(op, cfg) == [op |-> op, cfg |-> cfg, last |-> ctl_ui.last, join |-> ""]

\* start()
CtlStart ==
    /\ ctl_ui.op = "idle" /\ CanStart(ctl_config)
    /\ LET s == StartedWith(ctl_config, ctl_threads, ctl_stop, ctl_thread)
       IN  /\ ctl_threads' = s.threads /\ ctl_stop' = s.stop /\ ctl_thread' = s.thread
    /\ ctl_ui' = Returned("start", "")
    /\ UNCHANGED <<ctl_config, ctl_available, ctl_tick>>

\* stop(): the event is set; without a thread the call returns, with one it
\* waits in join.
CtlStop ==
    /\ ctl_ui.op = "idle"
    /\ ctl_stop' = TRUE
    /\ ctl_ui' = IF ctl_thread = 0 THEN Returned("stop", "") ELSE Joining("stop", <<>>)
    /\ UNCHANGED <<ctl_config, ctl_available, ctl_thread, ctl_threads, ctl_tick>>

\* reload(config): stop(), then the config is replaced and start() is called.
CtlReload ==
    \E cfg \in CtlConfigs :
        /\ ctl_ui.op = "idle" /\ CanStart(cfg)
        /\ IF ctl_thread = 0
           THEN LET s == StartedWith(cfg, ctl_threads, TRUE, 0)
                IN  /\ ctl_threads' = s.threads /\ ctl_stop' = s.stop
                    /\ ctl_thread' = s.thread
                    /\ ctl_config' = cfg
                    /\ ctl_ui' = Returned("reload", "")
           ELSE /\ ctl_stop' = TRUE
                /\ ctl_ui' = Joining("reload", <<cfg>>)
                /\ UNCHANGED <<ctl_config, ctl_thread, ctl_threads>>
        /\ UNCHANGED <<ctl_available, ctl_tick>>

\* join(timeout=1.0) returns, because its thread has ended or at the
\* timeout; _thread is cleared and the call runs to its end: stop()
\* returns; reload() replaces the config and calls start().
CtlJoin ==
    /\ ctl_ui.op \in {"stop", "reload"}
    /\ ctl_ui' = Returned(ctl_ui.op, IF ctl_threads[ctl_thread].stage = "ended"
                                     THEN "ended" ELSE "timeout")
    /\ IF ctl_ui.op = "stop"
       THEN /\ ctl_thread' = 0
            /\ UNCHANGED <<ctl_config, ctl_stop, ctl_threads>>
       ELSE LET s == StartedWith(ctl_ui.cfg[1], ctl_threads, ctl_stop, 0)
            IN  /\ ctl_threads' = s.threads /\ ctl_stop' = s.stop /\ ctl_thread' = s.thread
                /\ ctl_config' = ctl_ui.cfg[1]
    /\ UNCHANGED <<ctl_available, ctl_tick>>

\* Thread th goes on to a stage; the config of a thread that ended is no
\* longer of interest.
ThreadMoves(th, stage) ==
    /\ ctl_threads' = [ctl_threads EXCEPT
                          ![th] = [stage |-> stage,
                                   cfg |-> IF stage = "ended" THEN <<>> ELSE @.cfg]]
    /\ UNCHANGED <<ctl_config, ctl_thread, ctl_stop, ctl_ui>>

\* _run up to the loop: the device is opened and has a D-pad source.
ThreadConnects ==
    \E th \in DOMAIN ctl_threads :
        /\ ctl_threads[th].stage = "starting"
        /\ ThreadMoves(th, "polling")
        /\ ctl_available' = TRUE
        /\ UNCHANGED ctl_tick

\* _run returns before the loop: no device at the index, or no D-pad source.
ThreadStartupFails ==
    \E th \in DOMAIN ctl_threads :
        /\ ctl_threads[th].stage = "starting"
        /\ ThreadMoves(th, "ended")
        /\ ctl_available' = FALSE
        /\ UNCHANGED ctl_tick

\* Mutation of the loop condition: the stop event is not looked at.
LoopGoesOn_always(stop) == TRUE

\* "while not self._stop.is_set()"
LoopGoesOn(stop) == ~stop

\* The loop sees the stop event set: _run ends through its finally clause.
ThreadExits ==
    \E th \in DOMAIN ctl_threads :
        /\ ctl_threads[th].stage = "polling"
        /\ ~LoopGoesOn(ctl_stop)
        /\ ThreadMoves(th, "ended")
        /\ ctl_available' = FALSE
        /\ UNCHANGED ctl_tick

\* One iteration of the loop of thread th; throttled is the answer of
\* _should_throttle, asked only for a direction mapped to an action.
ThreadLoopWith(th, read, throttled) ==
    /\ ctl_threads[th].stage = "polling"
    /\ LoopGoesOn(ctl_stop)
    /\ ctl_tick.n < MaxLoops
    /\ IF read.fail = "hat"
       THEN /\ ThreadMoves(th, "ended")
            /\ ctl_available' = FALSE
            /\ ctl_tick' = [n |-> ctl_tick.n + 1, thread |-> th, read |-> read,
                            emitted |-> <<>>]
       ELSE LET d == read.direction
                action == IF d = <<>> THEN "none" ELSE ctl_config.dpad_map[d[1]]
            IN  /\ action = "none" => ~throttled
                /\ ctl_tick' = [n |-> ctl_tick.n + 1, thread |-> th, read |-> read,
                                emitted |-> IF action = "none" \/ throttled THEN <<>>
                                            ELSE <<action>>]
                /\ UNCHANGED <<ctl_config, ctl_available, ctl_thread, ctl_stop, ctl_threads,
                               ctl_ui>>

ThreadLoops ==
    \E th \in DOMAIN ctl_threads, read \in CtlReads, throttled \in BOOLEAN :
        ThreadLoopWith(th, read, throttled)

NextCtl ==
    \/ CtlStart /\ UNCHANGED nonCtl
    \/ CtlStop /\ UNCHANGED nonCtl
    \/ CtlReload /\ UNCHANGED nonCtl
    \/ CtlJoin /\ UNCHANGED nonCtl
    \/ ThreadConnects /\ UNCHANGED nonCtl
    \/ ThreadStartupFails /\ UNCHANGED nonCtl
    \/ ThreadExits /\ UNCHANGED nonCtl
    \/ ThreadLoops /\ UNCHANGED nonCtl

SpecCtl == InitCtl /\ [][NextCtl]_vars

\* The threads that are in their poll loop.
Polling == { th \in DOMAIN ctl_threads : ctl_threads[th].stage = "polling" }

\* The step is an iteration of a poll loop.
LoopStep == ctl_tick'.n = ctl_tick.n + 1

\* C32: a read of the hat, of an axis or of a button that fails in one
\* iteration counts as no signal: the iteration emits nothing, its thread
\* stays in the loop and the backend stays available.
C32_FailedReadIsNoSignal ==
    [][ (LoopStep /\ ctl_tick'.read.fail # "none")
        => /\ ctl_tick'.emitted = <<>>
           /\ ctl_threads'[ctl_tick'.thread].stage = "polling"
           /\ ctl_available' = ctl_available ]_vars

\* C33: every iteration of a poll loop runs under the config its thread
\* was started with, and a reload replaces the config only when every
\* thread started before has ended.
C33_LoopKeepsItsConfig ==
    [][ /\ LoopStep => ctl_config = ctl_threads[ctl_tick'.thread].cfg
        /\ ctl_config' # ctl_config
              => \A th \in DOMAIN ctl_threads : ctl_threads[th].stage = "ended" ]_vars

\* stop() has returned and no call was made since.
Stopped == ctl_ui.op = "idle" /\ ctl_ui.last = "stop"

\* After stop(), whatever the state it was called in, the stop event is set
\* and no thread is held.
StopLeavesStopped == Stopped => ctl_stop /\ ctl_thread = 0

\* The join of stop() can always return: it does not wait for a thread
\* that goes on.
StopReturns == ctl_ui.op = "stop" => ENABLED CtlJoin

\* A step of stop() changes neither the config nor the available flag, and
\* a stop() of a stopped backend changes nothing.
StopIsIdempotent ==
    [][ (/\ ctl_ui' # ctl_ui /\ ctl_ui.op \in {"idle", "stop"}
         /\ ctl_ui'.last = "stop" /\ ctl_ui'.op = "idle")
        => /\ ctl_config' = ctl_config /\ ctl_available' = ctl_available
           /\ ctl_threads' = ctl_threads /\ ctl_tick' = ctl_tick
           /\ (ctl_stop /\ ctl_thread = 0)
                 => ctl_stop' /\ ctl_thread' = 0 /\ ctl_ui'.join = "" ]_vars

\* No iteration begins with the stop event set, and a loop that finds it
\* set can end.
LoopEndsOnStop ==
    /\ [][ LoopStep => ~ctl_stop ]_vars
    /\ [](ctl_stop /\ Polling # {} => ENABLED ThreadExits)

\* C34: stop() leaves the backend stopped whatever state it is called in
\* (never started, running, stopped, disabled) and however often, its join
\* returns when the thread has ended or at the timeout, and a loop begins
\* no iteration once the stop event is set: it ends instead.
C34_StopIdempotentAndBounded ==
    /\ []StopLeavesStopped
    /\ []StopReturns
    /\ StopIsIdempotent
    /\ LoopEndsOnStop

\* C34's case: a loop that had run an iteration was stopped, its thread
\* ended within the join, and stop() was called again.
C34_Witness ==
    /\ Stopped /\ ctl_ui.join = ""
    /\ ctl_tick.n >= 1 /\ ctl_threads # <<>>
    /\ \A th \in DOMAIN ctl_threads : ctl_threads[th].stage = "ended"
    /\ ctl_stop /\ ctl_thread = 0 /\ ~ctl_available

\* C38: whatever start, stop and reload calls were made, at most one thread
\* is in its poll loop.
C38_AtMostOneLoop ==
    Cardinality(Polling) <= 1

\* C39: the available flag is set only while a poll loop runs, it is clear
\* once stop() has returned, a loop emits nothing after stop() has returned,
\* and a thread that ends does not clear the flag under a loop started
\* after it.
C39_AvailableOnlyWhileLoopRuns ==
    /\ [](ctl_available => Polling # {})
    /\ [](Stopped => ~ctl_available)
    /\ [][ /\ (LoopStep /\ Stopped) => ctl_tick'.emitted = <<>>
           /\ \A th \in DOMAIN ctl_threads :
                 (/\ ctl_threads[th].stage # "ended" /\ ctl_threads'[th].stage = "ended"
                  /\ \E later \in DOMAIN ctl_threads :
                         later > th /\ ctl_threads'[later].stage = "polling")
                 => ctl_available' = ctl_available ]_vars

-----------------------------------------------------------------------------
(***************************************************************************)
(* SpecTick: the periodic _tick of the Tk window.  run() calls _tick once; *)
(* _tick drains the command queue and then arms itself again with          *)
(* root.after(100, self._tick).  handle_action catches nothing, so the     *)
(* OSError of a log write in next_run or undo_last_run leaves              *)
(* _drain_hotkey_queue and _tick where it was raised.  tick_armed tells    *)
(* that a call of _tick is pending.  The sources keep putting actions on   *)
(* the queue from their own threads.                                       *)
(***************************************************************************)

\* __init__ and run() up to its call of _tick
InitTick ==
    /\ TrackerInit
    /\ LogOff /\ GateOff /\ ComboOff /\ KeysOff /\ PadOff /\ SetOff /\ CtlOff
    /\ queue = <<>>
    /\ files = <<EnsureHeader(NoFile)>>
    /\ logger_path = 1 /\ current_csv_path = 1
    /\ draining = FALSE
    /\ enqueued = <<>> /\ applied = <<>>
    /\ handled = NoneHandled
    /\ tick_armed = TRUE

TickKeyboardPut == KeyboardPut /\ UNCHANGED tick_armed

TickControllerPut == ControllerPut /\ UNCHANGED tick_armed

\* The pending call of _tick is made: it enters _drain_hotkey_queue.
TickFires ==
    /\ tick_armed
    /\ TickBegin
    /\ tick_armed' = FALSE

TickDrainOne == DrainOne /\ UNCHANGED tick_armed

\* One turn of the loop in which handle_action raises: get_nowait has taken
\* the pair, the tracker call ends where the logger raised, and the
\* exception leaves the loop and _tick before root.after is reached.
TickDrainFails ==
    /\ draining
    /\ queue # <<>>
    /\ LET g == QueueGet(queue)
       IN  /\ ~IsBlockedByRunLimit(g.item[2])
           /\ \/ g.item[2] = "next_run" /\ NextRunAppendFails
              \/ g.item[2] = "undo_last" /\ UndoLastFails
           /\ queue' = g.rest
           /\ handled' = Handled(g.item[1], "ui", g.item[2])
    /\ draining' = FALSE
    /\ UNCHANGED <<files, logger_path, current_csv_path, enqueued, applied, tick_armed>>

\* The queue is empty: the loop ends and _tick arms itself again.
TickDrainEnd ==
    /\ DrainEnd
    /\ tick_armed' = TRUE

NextTick ==
    \/ TickKeyboardPut /\ UNCHANGED nonTick
    \/ TickControllerPut /\ UNCHANGED nonTick
    \/ TickFires /\ UNCHANGED nonTick
    \/ TickDrainOne /\ UNCHANGED nonTick
    \/ TickDrainFails /\ UNCHANGED nonTick
    \/ TickDrainEnd /\ UNCHANGED nonTick

\* The Tk main loop makes a pending call of _tick, and a call of _tick that
\* has begun runs on: each turn of its loop handles the pair it took, with or
\* without an error, and at an empty queue the loop ends.
TickFairness ==
    /\ WF_vars(TickFires /\ UNCHANGED nonTick)
    /\ WF_vars((TickDrainOne \/ TickDrainFails) /\ UNCHANGED nonTick)
    /\ WF_vars(TickDrainEnd /\ UNCHANGED nonTick)

SpecTick == InitTick /\ [][NextTick]_vars /\ TickFairness

\* C40: every action a source has put on the queue is eventually handed to
\* handle_action by the drain (the k-th put is followed by the k-th call),
\* and a call of _tick is pending again and again, also after a call of
\* handle_action ended with an error.
C40_EnqueuedEventuallyHandledDrainRearmed ==
    /\ \A k \in 1..MaxEvents : (Len(enqueued) >= k) ~> (handled.n >= k)
    /\ []<>tick_armed
====
